---- MODULE Spec2Model ----
(***************************************************************************)
(* Newstack rendering / reconciliation / reactivity engine.                *)
(*                                                                         *)
(* The module models one process of the framework: either the browser      *)
(* client (NewstackClient + Renderer, renderer.ts second listing) or the   *)
(* HTTP server (NewstackServer + the Renderer it was written against,      *)
(* renderer.ts first listing).  Every public operation (start, a route     *)
(* render, a DOM event handler, a field write through the reactivity       *)
(* proxy, a page request) is one action; the lifecycle hooks the engine    *)
(* invokes are recorded, in invocation order, in the history variable log. *)
(***************************************************************************)
EXTENDS Integers, Sequences, FiniteSets, TLC

(***************************************************************************)
(* Bounds of the exploration.                                              *)
(***************************************************************************)
MaxOps == 3
MaxRequests == 3
MaxCount == 2
\* Longest route pattern and longest path given to matchRoute directly.
MaxRouteLen == 5
MaxPathLen == 3
\* Most calls of findComponentByHash made by application code in a run, and
\* most client operations after start in the runs with such calls.
MaxFinds == 2
MaxFindOps == 1
\* Most page requests in the runs where the handling of requests overlaps.
MaxOverlap == 2
\* Client operations after start while hooks are pending.
MaxAsyncOps == 1
\* Most children of the root of an element tree handed to patchElement.
MaxKids == 2
\* Renders of the one component whose handler binding is followed.
MaxWireOps == 2

(***************************************************************************)
(* The application under test: an entrypoint whose render output holds two *)
(* routed pages; the Home page nests a Counter component.                  *)
(*   App.render     = <main><Home route="/"/><About route="/about"/></main>*)
(*   Home.render    = <div>{count}<Counter/><button onclick=.../></div>    *)
(*   Counter.render = <div>{count}<button onclick=.../></div>              *)
(*   About.render   = <div>{count}<button onclick=.../></div>              *)
(* In the second tree shape ("shared") the About page nests the Counter    *)
(* component as well:                                                      *)
(*   About.render   = <div>{count}<Counter/><button onclick=.../></div>    *)
(* Every component declares prepare, hydrate, update and destroy.          *)
(* The third page of the entrypoint, <Profile route="/profile/:id"/>, has  *)
(* no state field and no handler; its render output shows params.id.       *)
(*                                                                         *)
(* A component class is identified by its static hash; a component node is *)
(* one occurrence of a class in a render output.  Home and About occur     *)
(* once and their node carries the name of the class.  In the tree shape   *)
(* "late" the Counter's render output holds a component Late as soon as    *)
(* its count is above the default.  In the tree shape "faulty" the render  *)
(* of the Counter raises once its count is above the default, and the      *)
(* render of Profile raises when an id is bound.  In the tree shape        *)
(* "redirect" the prepare of Home assigns router.path on the server.  In   *)
(* the tree shape "async" the prepare of the entrypoint and the prepare    *)
(* and hydrate of the Counter are async functions; the Counter's hydrate   *)
(* assigns its field after the await.                                      *)
(***************************************************************************)
EntryHash == "App"
Hashes == {"App", "Home", "Counter", "About", "Profile"}
CompHashes == Hashes \ {EntryHash}

Trees == {"example", "shared"}
Nodes == {"Home", "HomeCounter", "About", "AboutCounter", "Profile"}
\* Document order of the component nodes under #app.
DocOrder == <<"Home", "HomeCounter", "About", "AboutCounter", "Profile">>

\* node.type.hash
TypeOf(n) == IF n \in {"HomeCounter", "AboutCounter"} THEN "Counter" ELSE n

\* A string is the sequence of its characters.  NoRoute: no route attribute.
NoRoute == <<>>
MatchAll == <<"*">>
RootPath == <<"/">>
AboutPath == <<"/", "a", "b", "o", "u", "t">>
ProfileRoute == <<"/", "p", "r", "o", "f", "i", "l", "e", "/", ":", "i", "d">>
ProfilePath == <<"/", "p", "r", "o", "f", "i", "l", "e", "/", "4", "2">>
\* "/profile": a path no route of the application matches.
OtherPath == <<"/", "p", "r", "o", "f", "i", "l", "e">>
Paths == {RootPath, AboutPath, ProfilePath, OtherPath}

\* props.route of a component node.
RouteOf(n) ==
  CASE n = "Home" -> RootPath
    [] n = "About" -> AboutPath
    [] n = "Profile" -> ProfileRoute
    [] OTHER -> NoRoute

\* Components that declare the state field "count" and an onclick handler.
Stateful == {"Home", "Counter", "About"}
\* Components whose prepare assigns page.title.
Pages == {"Home", "About", "Profile"}
\* context.params: name -> value, no binding at first.
NoParams == <<>>
IdName == <<"i", "d">>

\* Declared default of the single state field "count" of every component.
Default == 0
\* Value written by hydrate() of a component whose hydrate assigns a field.
HydrateValue == 0
\* Value an async hydrate assigns after its await.
ImportedValue == 1
\* Value carried by a hydration snapshot entry.
SnapValue == 1

\* Markup serialized for a component node: nothing (""), the placeholder
\* comment ("<!---->") or the element of the component's render output with
\* the texts it interpolates (count; params.id in Profile).
NoOut == [kind |-> "none", count |-> 0, id |-> <<>>]
Placeholder == [kind |-> "comment", count |-> 0, id |-> <<>>]
ElementOut(c, i) == [kind |-> "element", count |-> c, id |-> i]
NoOutAll == [n \in Nodes |-> NoOut]
NoBound == [inst |-> 0, px |-> FALSE]
AbsentEl == [present |-> FALSE, id |-> 0, shown |-> NoOut, marker |-> FALSE,
             bound |-> NoBound]

NoSnapshot == [present |-> FALSE, states |-> {}]
FullSnapshot == [present |-> TRUE, states |-> CompHashes \cup {"Gone"}]
PartialSnapshot == [present |-> TRUE, states |-> {"Counter"}]

VARIABLES
  env,         \* context.environment: "client" or "server"
  path,        \* ctx.path (what router.path reads)
  params,      \* context.params
  title,       \* context.page.title ("": not set by the application)
  pageHtml,    \* markup returned by the last html(app.render()) call
  visible,     \* Renderer.visibleHashes
  regOrder,    \* key order of Renderer.components (client)
  regInst,     \* Renderer.components: hash -> registry instance (0: no entry)
  insts,       \* every component object ever constructed: [hash, count]
  compEl,      \* Renderer.componentElements: hash -> element id (0: none)
  dom,         \* the document under #app: node -> element rendered for it
  nextEl,      \* next fresh element identity
  mainEl,      \* identity of the <main> element under #app (0: none)
  lastVNode,   \* Renderer.lastVNode is set
  log,         \* history of hook invocations and patch passes
  err,         \* an exception escaped the running operation
  started,     \* NewstackClient.start has run
  ops,         \* number of client operations performed after start
  lastOp,      \* the operation that produced the current state
  snapshot,    \* script#__NEWSTACK_STATE__ of the delivered page
  hydrateSets, \* components whose hydrate() assigns their field
  tree,        \* shape of the application's component tree
  srvComps,    \* server Renderer.components: sequence of [inst, visible]
  torn,        \* a failed updateComponent or patchRoute call changed the DOM
  pushes,      \* history.pushState calls so far
  routerPath,  \* the path field of the router object behind the proxy
  pending,     \* asynchronous hooks that have not settled: [inst, hook]
  listeners,   \* popstate listeners registered on window
  oldEl,       \* element tree handed to patchElement as oldEl
  newEl,       \* element tree handed to patchElement as newEl
  vnode,       \* render output handed to patchElement as vnode
  patchOut,    \* oldEl after patchElement, and the DOM writes it issued
  requests,    \* number of page requests served
  route,       \* route attribute handed to the route test on its own
  matched,     \* what that route test answered
  found,       \* calls of findComponentByHash so far, with what they returned
  reqs         \* page requests whose handling may overlap, in order of arrival

vars == <<env, path, params, title, pageHtml, visible, regOrder, regInst,
          insts, compEl, dom, nextEl, mainEl, lastVNode, log, err, started,
          ops, lastOp, snapshot, hydrateSets, tree, srvComps, requests,
          route, matched, found, reqs, torn, pushes, routerPath, pending,
          listeners, oldEl, newEl, vnode, patchOut>>

(***************************************************************************)
(* The operations are written as functions from machine state to machine   *)
(* state; Cur packs the variables, Commit unpacks the result.              *)
(***************************************************************************)
Cur ==
  [path |-> path, params |-> params, title |-> title,
   pageHtml |-> pageHtml, visible |-> visible, regOrder |-> regOrder,
   regInst |-> regInst, insts |-> insts, compEl |-> compEl, dom |-> dom,
   nextEl |-> nextEl, mainEl |-> mainEl, lastVNode |-> lastVNode,
   log |-> log, err |-> err, srvComps |-> srvComps, torn |-> torn,
   pushes |-> pushes, routerPath |-> routerPath, pending |-> pending,
   listeners |-> listeners,
   out |-> NoOutAll, ret |-> 0]

Commit(s) ==
  /\ path' = s.path
  /\ params' = s.params
  /\ title' = s.title
  /\ pageHtml' = s.pageHtml
  /\ visible' = s.visible
  /\ regOrder' = s.regOrder
  /\ regInst' = s.regInst
  /\ insts' = s.insts
  /\ compEl' = s.compEl
  /\ dom' = s.dom
  /\ nextEl' = s.nextEl
  /\ mainEl' = s.mainEl
  /\ lastVNode' = s.lastVNode
  /\ log' = s.log
  /\ err' = s.err
  /\ srvComps' = s.srvComps
  /\ torn' = s.torn
  /\ pushes' = s.pushes
  /\ routerPath' = s.routerPath
  /\ pending' = s.pending
  /\ listeners' = s.listeners

\* Component nodes of the render output of a component of class h.
Kids(h) ==
  CASE h = "App" -> <<"Home", "About", "Profile">>
    [] h = "Home" -> <<"HomeCounter">>
    [] h = "About" /\ tree = "shared" -> <<"AboutCounter">>
    [] OTHER -> <<>>

\* Component nodes of the vnode instance i returns from render.  In the
\* tree shape "late" the Counter renders a further component, Late, once
\* its count has left the default: <div>{count}{count > 0 && <Late/>}</div>.
RenderKids(s, i) ==
  Kids(s.insts[i].hash) \o
    (IF tree = "late" /\ s.insts[i].hash = "Counter"
          /\ s.insts[i].count > Default
       THEN <<"Late">>
       ELSE <<>>)

\* component.render(context) raises.  In the tree shape "faulty" the
\* Counter indexes a one-element list by its count, and Profile looks the
\* bound id up in an empty table.
RenderThrows(s, i) ==
  /\ tree = "faulty"
  /\ \/ s.insts[i].hash = "Counter" /\ s.insts[i].count > Default
     \/ s.insts[i].hash = "Profile" /\ IdName \in DOMAIN s.params

HashOf(s, i) == IF i = 0 THEN "" ELSE s.insts[i].hash

\* A hook invocation or a patch pass, with the field of the object it is
\* invoked on, the params the hook can read, and whether it happens before
\* the first patchRoute has completed (lastVNode not set).
Emit(s, e, i, el) ==
  [s EXCEPT !.log = Append(@, [ev |-> e, inst |-> i, hash |-> HashOf(s, i),
                               el |-> el, vis |-> {}, path |-> <<>>,
                               count |-> IF i = 0 THEN 0
                                                  ELSE s.insts[i].count,
                               params |-> s.params,
                               first |-> ~s.lastVNode])]

\* Start of a route render (client) or of a page request (server), with the
\* visible set and the context path at that moment.
EmitMark(s, e) ==
  [s EXCEPT !.log = Append(@, [ev |-> e, inst |-> 0, hash |-> "",
                               el |-> 0, vis |-> s.visible,
                               path |-> s.path, count |-> 0,
                               params |-> s.params,
                               first |-> ~s.lastVNode])]

Throw(s) == [s EXCEPT !.err = TRUE]

\* new (type)() wrapped by proxify: a fresh object holding the defaults.
NewInst(s, h) ==
  [s EXCEPT !.insts = Append(@, [hash |-> h, count |-> Default])]

\* The value v under the name of F's parameter.
With(v, F(_)) == F(v)

RECURSIVE FoldState(_, _, _)
FoldState(Op(_, _), s, xs) ==
  IF xs = <<>> THEN s ELSE FoldState(Op, Op(s, Head(xs)), Tail(xs))

(***************************************************************************)
(* matchRoute: split on "/", drop empty segments, compare position-wise,   *)
(* then bind the ":name" segments in params.                               *)
(***************************************************************************)
\* String.prototype.split("/")
RECURSIVE Split(_)
Split(str) ==
  IF str = <<>> THEN << <<>> >>
  ELSE LET rest == Split(Tail(str))
       IN IF Head(str) = "/"
            THEN << <<>> >> \o rest
            ELSE << <<Head(str)>> \o Head(rest) >> \o Tail(rest)

\* split("/") with the empty pieces kept.
SegmentsKeepEmpty(str) == Split(str)

\* .filter(Boolean)
Segments(str) == SelectSeq(Split(str), LAMBDA x : x # <<>>)
\* segment.startsWith(":")
IsParam(seg) == seg # <<>> /\ Head(seg) = ":"
\* context.params[name] = value
SetParam(p, name, value) ==
  [x \in DOMAIN p \cup {name} |-> IF x = name THEN value ELSE p[x]]

\* The value matchRoute returns.
matchRoute(routePattern, currentPath) ==
  LET routeSegments == Segments(routePattern)
      pathSegments == Segments(currentPath)
  IN /\ Len(routeSegments) = Len(pathSegments)
     /\ \A i \in 1..Len(routeSegments) :
          IsParam(routeSegments[i]) \/ routeSegments[i] = pathSegments[i]

\* routeSegments.forEach(...) from position i on: segment.slice(1) is bound
\* to the path segment of the same index.
RECURSIVE BindParams(_, _, _, _)
BindParams(p, routeSegments, pathSegments, i) ==
  IF i > Len(routeSegments) THEN p
  ELSE BindParams(IF IsParam(routeSegments[i])
                    THEN SetParam(p, Tail(routeSegments[i]), pathSegments[i])
                    ELSE p,
                  routeSegments, pathSegments, i + 1)

\* context.params after matchRoute(routePattern, context) has returned.
matchRouteParams(p, routePattern, currentPath) ==
  IF matchRoute(routePattern, currentPath)
    THEN BindParams(p, Segments(routePattern), Segments(currentPath), 1)
    ELSE p

\* The route test without the "*" case.
RouteMatchesNoWildcard(r, p) == r = NoRoute \/ matchRoute(r, p)

\* The route test at the head of Renderer.html: the node is serialized.
RouteMatches(r, p) ==
  \/ r = NoRoute
  \/ r = MatchAll
  \/ matchRoute(r, p)

\* context.params after the route test (matchRoute runs for every route).
RouteParams(ps, r, p) ==
  IF r = NoRoute THEN ps ELSE matchRouteParams(ps, r, p)

RouteShown(n, p) == RouteMatches(RouteOf(n), p)

\* context.params as they were when the current route render or page
\* request began.
ParamsAtMark(s) ==
  LET marks == {k \in 1..Len(s.log) : s.log[k].ev \in {"renderRoute", "request"}}
  IN IF marks = {} THEN NoParams
     ELSE s.log[CHOOSE k \in marks : \A j \in marks : j <= k].params

\* The render output, had the component been rendered before the route test
\* of its node bound the parameters.
RenderOutBeforeMatch(s, i) ==
  ElementOut(s.insts[i].count,
             IF s.insts[i].hash = "Profile" /\ IdName \in DOMAIN ParamsAtMark(s)
               THEN ParamsAtMark(s)[IdName]
               ELSE <<>>)

\* The texts component.render(context) interpolates.
RenderOut(s, i) ==
  ElementOut(s.insts[i].count,
             IF s.insts[i].hash = "Profile" /\ IdName \in DOMAIN s.params
               THEN s.params[IdName]
               ELSE <<>>)

(***************************************************************************)
(* Registry.                                                               *)
(***************************************************************************)
HasEntry(s, h) == \E k \in 1..Len(s.regOrder) : s.regOrder[k] = h

\* Map.set: a new key goes last, an existing key keeps its position.
RegistrySet(s, h, i) ==
  [s EXCEPT !.regInst[h] = i,
            !.regOrder = IF HasEntry(s, h) THEN @ ELSE Append(@, h)]

findComponentByHash(s, h) == IF HasEntry(s, h) THEN s.regInst[h] ELSE 0

\* reinitiate of the entrypoint entry: stores the instance it returns.
ReinitiateEntry(s, h) ==
  LET s1 == NewInst(s, h)
  IN [s1 EXCEPT !.regInst[h] = Len(s1.insts), !.ret = Len(s1.insts)]

\* reinitiate, had it handed out the stored instance and created nothing.
ReinitiateKeep(s, h) == [s EXCEPT !.ret = s.regInst[h]]

\* reinitiate of a nested entry: returns c, stores a second createComponent().
ReinitiateChild(s, h) ==
  LET s1 == NewInst(s, h)
      s2 == NewInst(s1, h)
  IN [s2 EXCEPT !.regInst[h] = Len(s2.insts), !.ret = Len(s1.insts)]

Reinitiate(s, h) ==
  IF h = EntryHash THEN ReinitiateEntry(s, h) ELSE ReinitiateChild(s, h)

\* NewstackClient.routeComponents: visible registry instances, map order.
RouteHashes(s) ==
  SelectSeq(s.regOrder, LAMBDA h : h # EntryHash /\ h \in s.visible)

routeComponents(s) ==
  LET hs == RouteHashes(s) IN [k \in 1..Len(hs) |-> s.regInst[hs[k]]]

(***************************************************************************)
(* DOM under #app.  The element rendered for a component node is addressed *)
(* by the node; two nodes of one class are never on the same page.  An     *)
(* element has an identity (id), the text it shows for the component's     *)
(* field (shown), the data-newstack attribute (marker) and the closure     *)
(* bound to its on* properties (bound: the object the handler's `this` and *)
(* the update callback refer to; px: that object is the reactivity proxy). *)
(***************************************************************************)
RECURSIVE Detach(_, _)
Detach(s, n) ==
  FoldState(Detach, [s EXCEPT !.dom[n] = AbsentEl], Kids(TypeOf(n)))

\* Markup parsed into new nodes: new identities, attributes, no listeners.
RECURSIVE FreshSubtree(_, _)
FreshSubtree(s, n) ==
  IF s.out[n].kind # "element"
    THEN Detach(s, n)
    ELSE FoldState(FreshSubtree,
                   [s EXCEPT !.dom[n] = [present |-> TRUE, id |-> s.nextEl,
                                         shown |-> s.out[n], marker |-> TRUE,
                                         bound |-> NoBound],
                             !.nextEl = @ + 1],
                   Kids(TypeOf(n)))

\* One iteration of patchElement's child loop, for the child slot that holds
\* component node n; s.out is the markup of the new element.
RECURSIVE SlotPatch(_, _)
SlotPatch(s, n) ==
  LET oldp == s.dom[n].present
      newp == s.out[n].kind = "element"
  IN CASE ~oldp /\ ~newp -> s
       [] oldp /\ ~newp -> Detach(s, n)
       [] ~oldp /\ newp -> FreshSubtree(s, n)
       [] OTHER -> FoldState(SlotPatch,
                             [s EXCEPT !.dom[n].shown = s.out[n],
                                       !.dom[n].marker = TRUE],
                             Kids(TypeOf(n)))

\* The nodes of class h whose element under #app is el.
NodesOfEl(s, h, el) ==
  {n \in Nodes : TypeOf(n) = h /\ s.dom[n].present /\ s.dom[n].id = el}

Attached(s, h, el) == el # 0 /\ NodesOfEl(s, h, el) # {}

ElNode(s, h, el) == CHOOSE n \in NodesOfEl(s, h, el) : TRUE

\* patchElement(container, newEl, vnode, update) of updateComponent: the
\* component's own text and attributes follow the new element, the on*
\* properties of its own elements are rebound, nested slots are patched.
patchElement(s, h, i, px, el) ==
  IF ~Attached(s, h, el)
    THEN s
    ELSE LET n == ElNode(s, h, el)
         IN FoldState(SlotPatch,
                      [s EXCEPT !.dom[n].shown = RenderOut(s, i),
                                !.dom[n].marker = FALSE,
                                !.dom[n].bound =
                                  IF h \in Stateful
                                    THEN [inst |-> i, px |-> px]
                                    ELSE @],
                      Kids(h))

(***************************************************************************)
(* Renderer.html (client), Renderer.updateComponent, the proxy set trap    *)
(* and addSnapshotStateData call one another.                              *)
(***************************************************************************)
RECURSIVE html(_, _), updateComponent(_, _, _), ProxySet(_, _, _),
          addSnapshotStateData(_, _)

\* The snapshot branch of html, had it not looked at lastVNode.
FirstRenderAlways(s) == TRUE

\* if (!this.lastVNode): first render in the client.
FirstRender(s) == ~s.lastVNode

\* html(node) for the component node n.
html(s, n) ==
  IF s.err THEN s
  ELSE IF ~RouteShown(n, s.path) THEN [s EXCEPT !.out[n] = Placeholder]
  ELSE IF ~HasEntry(s, TypeOf(n)) THEN Throw(s)
  ELSE
    With(Reinitiate([s EXCEPT !.params =
                       RouteParams(@, RouteOf(n), s.path)], TypeOf(n)),
         LAMBDA s1 :
      With(IF FirstRender(s1) /\ snapshot.present
             THEN addSnapshotStateData(s1, TypeOf(n))
             ELSE s1, LAMBDA s2 :
        IF s2.err THEN s2
        ELSE IF RenderThrows(s2, s1.ret)
          THEN Throw(Emit([s2 EXCEPT !.visible = @ \cup {TypeOf(n)}],
                          "render", s1.ret, 0))
        ELSE FoldState(html,
                       Emit([s2 EXCEPT !.visible = @ \cup {TypeOf(n)},
                                       !.out[n] = RenderOut(s2, s1.ret)],
                            "render", s1.ret, 0),
                       RenderKids(s2, s1.ret))))

\* const { state } = states[hash] throws for a missing entry; each entry
\* of state is assigned to the registry instance through its proxy.
addSnapshotStateData(s, h) ==
  IF h \notin snapshot.states THEN Throw(s)
  ELSE IF h \notin Stateful THEN s
  ELSE ProxySet(Emit(s, "snapshot", s.regInst[h], s.compEl[h]),
                s.regInst[h], SnapValue)

\* updateComponent, had it rendered before looking for the element.
updateComponentRenderFirst(s, i, px) ==
  IF s.err THEN s
  ELSE
    LET h == s.insts[i].hash
        container == s.compEl[h]
    IN With(FoldState(html,
                      [Emit(s, "render", i, 0) EXCEPT !.out = NoOutAll],
                      RenderKids(s, i)), LAMBDA s2 :
         IF s2.err \/ container = 0 THEN [s2 EXCEPT !.out = s.out]
         ELSE [patchElement(Emit(s2, "patch", i, container),
                            h, i, px, container) EXCEPT !.out = s.out])

updateComponent(s, i, px) ==
  IF s.err THEN s
  ELSE
    LET h == s.insts[i].hash
        container == s.compEl[h]
    IN IF container = 0 THEN s
       ELSE
         With(IF RenderThrows(s, i)
                THEN Throw(Emit(s, "render", i, 0))
                ELSE FoldState(html,
                               [Emit(s, "render", i, 0)
                                  EXCEPT !.out = NoOutAll],
                               RenderKids(s, i)), LAMBDA s2 :
           IF s2.err THEN [s2 EXCEPT !.torn = @ \/ s2.dom # s.dom]
           ELSE [patchElement(Emit(s2, "patch", i, container),
                              h, i, px, container) EXCEPT !.out = s.out])

\* The set trap, had it re-rendered both before and after the update hook.
ProxySetTwice(s, i, v) ==
  IF s.err THEN s
  ELSE
    With(updateComponent([s EXCEPT !.insts[i].count = v], i, FALSE),
         LAMBDA s2 :
           IF s2.err THEN s2
           ELSE updateComponent(Emit(s2, "update", i, 0), i, FALSE))

\* The set trap, had it only stored the value on an instance whose destroy
\* has run.
ProxySetLive(s, i, v) ==
  IF s.err THEN s
  ELSE IF \E k \in 1..Len(s.log) :
            s.log[k].ev = "destroy" /\ s.log[k].inst = i
    THEN [s EXCEPT !.insts[i].count = v]
  ELSE
    With(updateComponent([s EXCEPT !.insts[i].count = v], i, FALSE),
         LAMBDA s2 : IF s2.err THEN s2 ELSE Emit(s2, "update", i, 0))

\* set trap of proxify: store, updateComponent(target), target.update?.()
ProxySet(s, i, v) ==
  IF s.err THEN s
  ELSE
    With(updateComponent([s EXCEPT !.insts[i].count = v], i, FALSE),
         LAMBDA s2 : IF s2.err THEN s2 ELSE Emit(s2, "update", i, 0))

(***************************************************************************)
(* Renderer.setupAllComponents.                                            *)
(***************************************************************************)
\* loop(node) of setupChildrenRecursively at the component node n:
\* create, register, render, then walk the render output.  No route test.
RECURSIVE setupChildrenRecursively(_, _)

\* The loop, had it skipped a node whose route does not match the path.
setupChildrenRouted(s, n) ==
  IF ~RouteShown(n, s.path) THEN s
  ELSE
    LET s1 == NewInst(s, TypeOf(n))
        component == Len(s1.insts)
        s2 == RegistrySet(s1, TypeOf(n), component)
        s3 == Emit(s2, "render", component, 0)
    IN FoldState(setupChildrenRecursively, s3, RenderKids(s1, component))

setupChildrenRecursively(s, n) ==
  LET s1 == NewInst(s, TypeOf(n))
      component == Len(s1.insts)
      s2 == RegistrySet(s1, TypeOf(n), component)
      s3 == Emit(s2, "render", component, 0)
  IN FoldState(setupChildrenRecursively, s3, RenderKids(s1, component))

\* Component nodes of the entrypoint's own render output, routes ignored.
setupDefaultVisibleHashes(s) ==
  [s EXCEPT !.visible = @ \cup {TypeOf(Kids(EntryHash)[k]) :
                                  k \in 1..Len(Kids(EntryHash))}]

\* app is the already constructed entrypoint object (instance 1).
setupAllComponents(s, app) ==
  LET s1 == RegistrySet(s, EntryHash, app)
      s2 == Emit(s1, "render", app, 0)
      s3 == FoldState(setupChildrenRecursively, s2, Kids(EntryHash))
  IN setupDefaultVisibleHashes(s3)

(***************************************************************************)
(* NewstackClient.                                                         *)
(***************************************************************************)
DestroyOne(s, i) == Emit(s, "destroy", i, 0)

\* Hooks that are async functions and await before they go on: in the
\* tree shape "async" the prepare of the entrypoint, and the prepare and
\* the hydrate of the Counter.
AsyncHooks ==
  IF tree = "async"
    THEN {<<"App", "prepare">>, <<"Counter", "prepare">>,
          <<"Counter", "hydrate">>}
    ELSE {}

\* An async hook has been called and has returned its promise.
Defer(s, i, hook) ==
  IF <<s.insts[i].hash, hook>> \in AsyncHooks
    THEN [s EXCEPT !.pending = @ \cup {[inst |-> i, hook |-> hook]}]
    ELSE s

\* The set trap of the router proxy is defined with renderRoute, below.
RECURSIVE RouterSet(_, _)

\* component.prepare(context): the prepare of a page assigns page.title.
\* In the tree shape "redirect" the prepare of Home, when it runs on the
\* server, sends the visitor on: router.path = "/about".
PrepareHook(s, i) ==
  With([Emit(s, "prepare", i, 0)
          EXCEPT !.title = IF s.insts[i].hash \in Pages
                             THEN s.insts[i].hash ELSE @],
       LAMBDA s1 :
         IF tree = "redirect" /\ env = "server" /\ s.insts[i].hash = "Home"
           THEN RouterSet(s1, AboutPath)
           ELSE s1)

destroyComponents(s) ==
  LET s1 == FoldState(DestroyOne, s, routeComponents(s))
  IN [s1 EXCEPT !.visible = {}]

\* patchRoute, had it patched the old element with the markup serialized
\* up to the point where a render raised.
patchRouteEager(s) ==
  With(FoldState(html, [s EXCEPT !.out = NoOutAll], Kids(EntryHash)),
       LAMBDA s1 :
         IF ~s.lastVNode
           THEN IF s1.err THEN s1
                ELSE [FoldState(FreshSubtree,
                                [s1 EXCEPT !.mainEl = s1.nextEl,
                                           !.nextEl = @ + 1],
                                Kids(EntryHash))
                        EXCEPT !.lastVNode = TRUE, !.out = NoOutAll,
                               !.pageHtml = s1.out]
           ELSE With(FoldState(SlotPatch, Emit(s1, "patch", 0, s1.mainEl),
                               Kids(EntryHash)),
                     LAMBDA s2 :
                       [s2 EXCEPT !.out = NoOutAll, !.pageHtml = s1.out,
                                  !.torn = @ \/ (s1.err /\ s2.dom # s.dom)]))

\* Renderer.patchRoute(app.render(), root)
patchRoute(s) ==
  With(FoldState(html, [s EXCEPT !.out = NoOutAll], Kids(EntryHash)),
       LAMBDA s1 :
         IF s1.err THEN [s1 EXCEPT !.torn = @ \/ s1.dom # s.dom]
         ELSE IF ~s.lastVNode
           THEN \* container.innerHTML = html
                [FoldState(FreshSubtree,
                           [s1 EXCEPT !.mainEl = s1.nextEl, !.nextEl = @ + 1],
                           Kids(EntryHash))
                   EXCEPT !.lastVNode = TRUE, !.out = NoOutAll,
                          !.pageHtml = s1.out]
           ELSE \* patchElement(oldEl, newEl, newVNode, () => {})
                [FoldState(SlotPatch, Emit(s1, "patch", 0, s1.mainEl),
                           Kids(EntryHash))
                   EXCEPT !.out = NoOutAll, !.pageHtml = s1.out])

\* One iteration of assignElements; querySelector('[data-newstack=hash]').
AssignOne(s, i) ==
  LET h == s.insts[i].hash
      marked == SelectSeq(DocOrder, LAMBDA n : /\ TypeOf(n) = h
                                               /\ s.dom[n].present
                                               /\ s.dom[n].marker)
  IN IF s.err \/ marked = <<>>
       THEN s
       ELSE updateComponent([s EXCEPT !.dom[Head(marked)].marker = FALSE,
                                      !.compEl[h] = s.dom[Head(marked)].id],
                            i, TRUE)

assignElements(s) == FoldState(AssignOne, s, routeComponents(s))

\* One iteration of startComponents: prepare, then hydrate; the hydrate of
\* a component in hydrateSets assigns its field through the proxy.
StartOne(s, i) ==
  IF s.err THEN s
  ELSE
    LET s1 == Defer(Emit(Defer(PrepareHook(s, i), i, "prepare"),
                         "hydrate", i, 0), i, "hydrate")
    IN IF s.insts[i].hash \in hydrateSets
         THEN ProxySet(s1, i, HydrateValue)
         ELSE s1

startComponents(s) == FoldState(StartOne, s, routeComponents(s))

\* patchLinks: every <a> gets its onclick; one more popstate listener is
\* added to window (a new closure each time, { once: true }).
patchLinks(s) == IF s.err THEN s ELSE [s EXCEPT !.listeners = @ + 1]

renderRoute(s, href) ==
  LET s1 == EmitMark([s EXCEPT !.path = href], "renderRoute")
      s2 == destroyComponents(s1)
      s3 == Emit(s2, "render", 1, 0)
      s4 == patchRoute(s3)
      s5 == assignElements(s4)
  IN startComponents(patchLinks(s5))

start(s, app, pathname) ==
  With(renderRoute(Defer(Emit(setupAllComponents(s, app), "prepare", app, 0),
                         app, "prepare"),
                   pathname),
       LAMBDA s3 : IF s3.err THEN s3
                   ELSE Defer(Emit(s3, "hydrate", app, 0), app, "hydrate"))

\* The rest of an async hook, run when what it awaits has settled: the
\* hydrate of a component with a field assigns it (this.imported = true).
Settled(s, q) ==
  IF q.hook = "prepare" THEN Emit(s, "prepared", q.inst, 0)
  ELSE IF s.insts[q.inst].hash \in Stateful
    THEN With(ProxySet(s, q.inst, ImportedValue), LAMBDA s1 :
           IF s1.err THEN s1 ELSE Emit(s1, "hydrated", q.inst, 0))
  ELSE Emit(s, "hydrated", q.inst, 0)

\* An on* property bound by patchElement: (e) => { val(e); update() }.
\* val is the application's handler, run with `this` = the bound object.
HandlerInc(s, b) ==
  LET v == s.insts[b.inst].count + 1
      s1 == IF b.px THEN ProxySet(s, b.inst, v)
                    ELSE [s EXCEPT !.insts[b.inst].count = v]
  IN updateComponent(s1, b.inst, b.px)

\* The set trap, had it been a plain assignment in both environments.
RouterSetSilent(s, p) == [s EXCEPT !.routerPath = p]

\* set trap of the router proxy for key "path": on the server obj.path =
\* val; on the client history.pushState, client.renderRoute(val), then
\* obj.path = val.
RouterSet(s, p) ==
  IF env = "server" THEN [s EXCEPT !.routerPath = p]
  ELSE With(renderRoute([s EXCEPT !.pushes = @ + 1], p), LAMBDA s1 :
         IF s1.err THEN s1 ELSE [s1 EXCEPT !.routerPath = p])

\* val assigns router.path, then the wrapper calls update().
HandlerNav(s, b, p) ==
  updateComponent(RouterSet(s, p), b.inst, b.px)

(***************************************************************************)
(* NewstackServer with the Renderer it is written against: components is   *)
(* keyed by instance and carries the visible flag.                         *)
(***************************************************************************)
\* Renderer.html (server) for the component node n.
RECURSIVE ServerHtml(_, _)
ServerHtml(s, n) ==
  IF ~RouteShown(n, s.path) THEN s
  ELSE
    LET s1 == NewInst([s EXCEPT !.params =
                         RouteParams(@, RouteOf(n), s.path)], TypeOf(n))
        component == Len(s1.insts)
        s2 == [s1 EXCEPT !.srvComps =
                 Append(@, [inst |-> component, visible |-> TRUE]),
                         !.out[n] = RenderOut(s1, component)]
        s3 == Emit(s2, "render", component, 0)
    IN FoldState(ServerHtml, s3, RenderKids(s1, component))

PrepareOne(s, e) == IF e.visible THEN PrepareHook(s, e.inst) ELSE s

ServerPrepare(s) == FoldState(PrepareOne, s, s.srvComps)

\* app.render and renderer.html of template: the markup of the page.
ServerPage(s, app) ==
  LET s1 == FoldState(ServerHtml,
                      [Emit(s, "render", app, 0) EXCEPT !.out = NoOutAll],
                      Kids(EntryHash))
  IN [s1 EXCEPT !.pageHtml = s1.out, !.out = NoOutAll]

template(s, app) == ServerPrepare(ServerPage(s, app))

\* The get("*") handler for a page path up to the call of template: every
\* entry is hidden, the entrypoint shown, the path stored in the context
\* and written to router.path.
HideAll(s, app, p) ==
  LET hidden == [k \in 1..Len(s.srvComps) |->
                   [s.srvComps[k] EXCEPT !.visible = FALSE]]
      known == \E k \in 1..Len(hidden) : hidden[k].inst = app
      shown == IF known
                 THEN [k \in 1..Len(hidden) |->
                         IF hidden[k].inst = app
                           THEN [hidden[k] EXCEPT !.visible = TRUE]
                           ELSE hidden[k]]
                 ELSE Append(hidden, [inst |-> app, visible |-> TRUE])
  IN EmitMark(RouterSet([s EXCEPT !.srvComps = shown, !.path = p], p),
              "request")

\* The get("*") handler for a page path.
ServePage(s, app, p) == template(HideAll(s, app, p), app)

\* The for...of of prepare resumed after entry k of the Map: the position of
\* the next entry whose visible flag is set now, 0 when the loop is over.
NextVisible(s, k) ==
  LET later == {j \in (k + 1)..Len(s.srvComps) : s.srvComps[j].visible}
  IN IF later = {} THEN 0 ELSE CHOOSE j \in later : \A i \in later : j <= i

(***************************************************************************)
(* Initial states and actions.                                             *)
(***************************************************************************)
NoOp == [op |-> "none", inst |-> 0, hash |-> "", from |-> 0, el |-> 0,
         val |-> 0]

\* No element tree is under test, patchElement has not been called.
NoAttrs == <<>>
NoNode == [kind |-> "none", tag |-> "", text |-> "", attrs |-> NoAttrs,
           kids |-> <<>>, id |-> 0]
NoPatch == [done |-> FALSE, node |-> NoNode, writes |-> {}]
\* No render output: patchElement called without a vnode.
NoVNode == [kind |-> "none", type |-> "", on |-> 0, kids |-> <<>>]

Init ==
  /\ env \in {"client", "server"}
  /\ path \in Paths
  /\ params = NoParams
  /\ title = ""
  /\ pageHtml = NoOutAll
  /\ visible = {}
  /\ regOrder = <<>>
  /\ regInst = [h \in Hashes |-> 0]
  /\ insts = <<[hash |-> EntryHash, count |-> Default]>>
  /\ compEl = [h \in Hashes |-> 0]
  /\ dom = [n \in Nodes |-> AbsentEl]
  /\ nextEl = 1
  /\ mainEl = 0
  /\ lastVNode = FALSE
  /\ log = <<>>
  /\ err = FALSE
  /\ started = FALSE
  /\ ops = 0
  /\ lastOp = NoOp
  /\ snapshot \in IF env = "client"
                    THEN {NoSnapshot, FullSnapshot, PartialSnapshot}
                    ELSE {NoSnapshot}
  /\ hydrateSets \in IF env = "client"
                       THEN {{}, {"Home"}, {"Counter"}}
                       ELSE {{}}
  /\ tree \in Trees
  /\ srvComps = <<>>
  /\ torn = FALSE
  /\ pushes = 0
  /\ routerPath = NoRoute
  /\ pending = {}
  /\ listeners = 0
  /\ patchOut = NoPatch
  /\ oldEl = NoNode
  /\ newEl = NoNode
  /\ vnode = NoVNode
  /\ requests = 0
  /\ route = NoRoute
  /\ matched = FALSE
  /\ found = <<>>
  /\ reqs = <<>>

Fixed ==
  UNCHANGED <<env, snapshot, hydrateSets, tree, route, matched, found, reqs,
              oldEl, newEl, vnode, patchOut>>

ClientReady == env = "client" /\ started /\ ~err /\ ops < MaxOps

\* Ghost record of an operation: who ran, on which object, where its events
\* start in log, the element associated with the hash and the value written.
Op(name, i, h, el, v) ==
  [op |-> name, inst |-> i, hash |-> h, from |-> Len(log), el |-> el,
   val |-> v]

\* new NewstackClient().start(app) at location.pathname = path
Start ==
  /\ env = "client" /\ ~started
  /\ Commit(start(Cur, 1, path))
  /\ started' = TRUE
  /\ lastOp' = Op("start", 1, EntryHash, 0, 0)
  /\ UNCHANGED <<ops, requests>>
  /\ Fixed

\* A patched link is clicked: history.pushState({}, "", href), then
\* renderRoute(href).
Navigate ==
  /\ ClientReady
  /\ \E href \in Paths :
       /\ Commit(renderRoute([Cur EXCEPT !.pushes = @ + 1], href))
       /\ lastOp' = Op("navigate", 0, "", 0, 0)
  /\ ops' = ops + 1
  /\ UNCHANGED <<started, requests>>
  /\ Fixed

\* The user clicks the counting button of the component at node n.
ClickInc ==
  /\ ClientReady
  /\ \E n \in Nodes :
       /\ dom[n].present
       /\ dom[n].bound # NoBound
       /\ insts[dom[n].bound.inst].count < MaxCount
       /\ Commit(HandlerInc(Cur, dom[n].bound))
       /\ lastOp' = Op("clickInc", dom[n].bound.inst, TypeOf(n),
                       compEl[TypeOf(n)], insts[dom[n].bound.inst].count + 1)
  /\ ops' = ops + 1
  /\ UNCHANGED <<started, requests>>
  /\ Fixed

\* The user clicks a button of Home whose handler assigns router.path.
ClickNav ==
  /\ ClientReady
  /\ dom["Home"].present
  /\ dom["Home"].bound # NoBound
  /\ \E p \in Paths :
       /\ Commit(HandlerNav(Cur, dom["Home"].bound, p))
       /\ lastOp' = Op("clickNav", dom["Home"].bound.inst, "Home",
                       compEl["Home"], 0)
  /\ ops' = ops + 1
  /\ UNCHANGED <<started, requests>>
  /\ Fixed

Hooked(l, e, i) == \E k \in 1..Len(l) : l[k].ev = e /\ l[k].inst = i

\* Application code holding the proxy of a hydrated, not destroyed component
\* (a timer started in hydrate) assigns its field.
WriteField ==
  /\ ClientReady
  /\ \E i \in 2..Len(insts) :
       /\ insts[i].hash \in Stateful
       /\ Hooked(log, "hydrate", i)
       /\ ~Hooked(log, "destroy", i)
       /\ insts[i].count < MaxCount
       /\ Commit(ProxySet(Cur, i, insts[i].count + 1))
       /\ lastOp' = Op("write", i, insts[i].hash, compEl[insts[i].hash],
                       insts[i].count + 1)
  /\ ops' = ops + 1
  /\ UNCHANGED <<started, requests>>
  /\ Fixed

\* The server answers GET p with the rendered page.
Request ==
  /\ env = "server"
  /\ requests < MaxRequests
  /\ \E p \in Paths :
       /\ Commit(ServePage(Cur, 1, p))
       /\ lastOp' = Op("request", 0, "", 0, 0)
  /\ requests' = requests + 1
  /\ UNCHANGED <<started, ops>>
  /\ Fixed

Next == Start \/ Navigate \/ ClickInc \/ ClickNav \/ WriteField \/ Request

Spec == Init /\ [][Next]_vars

(***************************************************************************)
(* The route test on its own: matchRoute and the head of Renderer.html are *)
(* applied to every route pattern and path over a small alphabet, with a   *)
(* binding of "a" left in params by an earlier match.                      *)
(***************************************************************************)
StringsUpTo(alphabet, n) == UNION {[1..k -> alphabet] : k \in 0..n}
TestRoutes == StringsUpTo({"/", ":", "a"}, MaxRouteLen) \cup {MatchAll}
TestPaths == StringsUpTo({"/", "a", "b"}, MaxPathLen)
StaleParams == SetParam(NoParams, <<"a">>, <<"z">>)

MatchInit ==
  /\ env = "client"
  /\ path \in TestPaths
  /\ params = StaleParams
  /\ title = ""
  /\ pageHtml = NoOutAll
  /\ visible = {}
  /\ regOrder = <<>>
  /\ regInst = [h \in Hashes |-> 0]
  /\ insts = <<[hash |-> EntryHash, count |-> Default]>>
  /\ compEl = [h \in Hashes |-> 0]
  /\ dom = [n \in Nodes |-> AbsentEl]
  /\ nextEl = 1
  /\ mainEl = 0
  /\ lastVNode = FALSE
  /\ log = <<>>
  /\ err = FALSE
  /\ started = FALSE
  /\ ops = 0
  /\ lastOp = NoOp
  /\ snapshot = NoSnapshot
  /\ hydrateSets = {}
  /\ tree = "example"
  /\ srvComps = <<>>
  /\ torn = FALSE
  /\ pushes = 0
  /\ routerPath = NoRoute
  /\ pending = {}
  /\ listeners = 0
  /\ patchOut = NoPatch
  /\ oldEl = NoNode
  /\ newEl = NoNode
  /\ vnode = NoVNode
  /\ requests = 0
  /\ route \in TestRoutes
  /\ matched = FALSE
  /\ found = <<>>
  /\ reqs = <<>>

MatchFrame ==
  UNCHANGED <<env, path, title, pageHtml, visible, regOrder, regInst, insts,
              compEl, dom, nextEl, mainEl, lastVNode, log, err, started, ops,
              snapshot, hydrateSets, tree, srvComps, requests, route,
              found, reqs, torn, pushes, routerPath, pending, listeners,
              oldEl, newEl, vnode, patchOut>>

\* matchRoute(route, context)
MatchRoute ==
  /\ lastOp = NoOp
  /\ matched' = matchRoute(route, path)
  /\ params' = matchRouteParams(params, route, path)
  /\ lastOp' = Op("match", 0, "", 0, 0)
  /\ MatchFrame

\* The route test of html(node) for a node with props.route = route.
CheckRoute ==
  /\ lastOp = NoOp
  /\ matched' = RouteMatches(route, path)
  /\ params' = RouteParams(params, route, path)
  /\ lastOp' = Op("check", 0, "", 0, 0)
  /\ MatchFrame

MatchNext == MatchRoute \/ CheckRoute

MatchSpec == MatchInit /\ [][MatchNext]_vars

(***************************************************************************)
(* The client with application code that looks components up by hash: the *)
(* operations of the client, and calls of findComponentByHash between      *)
(* them.  A call is recorded with the hash asked for, the instance         *)
(* returned (0: null) and the lengths of log and insts at that moment.     *)
(***************************************************************************)
\* Hashes asked for: a page, the nested component, and "Gone", the hash of
\* a class the application never renders.
FindHashes == {"Home", "Counter", "Gone"}

FindInit ==
  /\ Init
  /\ env = "client"
  /\ snapshot = NoSnapshot
  /\ hydrateSets = {}
  /\ tree = "example"

FindBudget == ops < MaxFindOps

\* renderer.findComponentByHash(h)
Find ==
  /\ env = "client" /\ ~err
  /\ Len(found) < MaxFinds
  /\ \E h \in FindHashes :
       found' = Append(found, [hash |-> h,
                               inst |-> findComponentByHash(Cur, h),
                               at |-> Len(log),
                               n |-> Len(insts)])
  /\ UNCHANGED <<env, path, params, title, pageHtml, visible, regOrder,
                 regInst, insts, compEl, dom, nextEl, mainEl, lastVNode, log,
                 err, started, ops, lastOp, snapshot, hydrateSets, tree,
                 srvComps, requests, route, matched, reqs, torn, pushes,
                 routerPath, pending, listeners, oldEl, newEl, vnode,
                 patchOut>>

FindNext ==
  \/ Find
  \/ FindBudget /\ Start
  \/ FindBudget /\ Navigate
  \/ FindBudget /\ ClickInc
  \/ FindBudget /\ ClickNav
  \/ FindBudget /\ WriteField

FindSpec == FindInit /\ [][FindNext]_vars

(***************************************************************************)
(* reinitiate of a registry entry, called as html calls it                 *)
(* (component = reinitiate()); found records what each call returned.      *)
(***************************************************************************)
Reinit ==
  /\ env = "client" /\ started /\ ~err
  /\ Len(found) < MaxFinds
  /\ \E h \in Hashes :
       /\ HasEntry(Cur, h)
       /\ Commit(Reinitiate(Cur, h))
       /\ found' = Append(found, [hash |-> h,
                                  inst |-> Reinitiate(Cur, h).ret,
                                  at |-> Len(log),
                                  n |-> Len(insts)])
       /\ lastOp' = Op("reinitiate", Reinitiate(Cur, h).ret, h, 0, 0)
  /\ UNCHANGED <<env, started, ops, snapshot, hydrateSets, tree, requests,
                 route, matched, reqs, oldEl, newEl, vnode, patchOut>>

ReinitNext ==
  \/ Reinit
  \/ FindBudget /\ Start
  \/ FindBudget /\ Navigate

ReinitSpec == FindInit /\ [][ReinitNext]_vars

(***************************************************************************)
(* The server with page requests whose handling overlaps: template runs    *)
(* up to an await of prepare, and another request may be handled before it *)
(* resumes.  A request is recorded with its path, the markup renderer.html *)
(* returned, the Map position its prepare loop is suspended at, the        *)
(* classes it has prepared, and, once answered, the title of its page.     *)
(***************************************************************************)
OverlapInit ==
  /\ Init
  /\ env = "server"

Suspended(r) == \E i \in 1..Len(reqs) : i # r /\ ~reqs[i].done

\* One iteration of the prepare loop of request r that reaches an await.
PrepareStep(s, r, rec) ==
  LET j == NextVisible(s, rec.cursor)
      i == s.srvComps[j].inst
  IN /\ Commit(PrepareHook(s, i))
     /\ reqs' = [k \in 1..Len(reqs) \cup {r} |->
                   IF k = r
                     THEN [rec EXCEPT !.cursor = j,
                                      !.prepared = Append(@, s.insts[i].hash)]
                     ELSE [reqs[k] EXCEPT !.overlapped = @ \/ ~reqs[k].done]]

\* A GET arrives: the handler runs through app.render and renderer.html and
\* into prepare, up to the await of the first visible component's prepare.
Arrive ==
  /\ env = "server"
  /\ Len(reqs) < MaxOverlap
  /\ \E p \in Paths :
       With(ServerPage(HideAll(Cur, 1, p), 1), LAMBDA s :
         PrepareStep(s, Len(reqs) + 1,
                     [path |-> p, page |-> s.pageHtml, cursor |-> 0,
                      prepared |-> <<>>, done |-> FALSE, title |-> "",
                      overlapped |-> Suspended(0)]))
  /\ lastOp' = Op("arrive", 0, "", 0, 0)
  /\ requests' = requests + 1
  /\ UNCHANGED <<started, ops>>
  /\ UNCHANGED <<env, snapshot, hydrateSets, tree, route, matched, found,
                 oldEl, newEl, vnode, patchOut>>

\* The awaited prepare of request r settles: the loop goes on to the next
\* visible entry of the Map and awaits its prepare.
Resume ==
  /\ env = "server"
  /\ \E r \in 1..Len(reqs) :
       /\ ~reqs[r].done
       /\ NextVisible(Cur, reqs[r].cursor) # 0
       /\ PrepareStep(Cur, r, reqs[r])
  /\ lastOp' = Op("resume", 0, "", 0, 0)
  /\ UNCHANGED <<started, ops, requests>>
  /\ UNCHANGED <<env, snapshot, hydrateSets, tree, route, matched, found,
                 oldEl, newEl, vnode, patchOut>>

\* The loop of request r is over: template reads context.page.title into
\* the page and the handler answers.
Respond ==
  /\ env = "server"
  /\ \E r \in 1..Len(reqs) :
       /\ ~reqs[r].done
       /\ NextVisible(Cur, reqs[r].cursor) = 0
       /\ reqs' = [reqs EXCEPT ![r].done = TRUE, ![r].title = title]
  /\ lastOp' = Op("respond", 0, "", 0, 0)
  /\ UNCHANGED <<path, params, title, pageHtml, visible, regOrder, regInst,
                 insts, compEl, dom, nextEl, mainEl, lastVNode, log, err,
                 srvComps, torn, pushes, routerPath, pending, listeners>>
  /\ UNCHANGED <<started, ops, requests>>
  /\ UNCHANGED <<env, snapshot, hydrateSets, tree, route, matched, found,
                 oldEl, newEl, vnode, patchOut>>

OverlapNext == Arrive \/ Resume \/ Respond

OverlapSpec == OverlapInit /\ [][OverlapNext]_vars

(***************************************************************************)
(* The client running the application in the tree shape "late", where the  *)
(* render output of a component gains a component node after a field       *)
(* write.                                                                  *)
(***************************************************************************)
LateInit ==
  /\ env = "client"
  /\ path \in Paths
  /\ params = NoParams
  /\ title = ""
  /\ pageHtml = NoOutAll
  /\ visible = {}
  /\ regOrder = <<>>
  /\ regInst = [h \in Hashes |-> 0]
  /\ insts = <<[hash |-> EntryHash, count |-> Default]>>
  /\ compEl = [h \in Hashes |-> 0]
  /\ dom = [n \in Nodes |-> AbsentEl]
  /\ nextEl = 1
  /\ mainEl = 0
  /\ lastVNode = FALSE
  /\ log = <<>>
  /\ err = FALSE
  /\ started = FALSE
  /\ ops = 0
  /\ lastOp = NoOp
  /\ snapshot = NoSnapshot
  /\ hydrateSets = {}
  /\ tree = "late"
  /\ srvComps = <<>>
  /\ torn = FALSE
  /\ pushes = 0
  /\ routerPath = NoRoute
  /\ pending = {}
  /\ listeners = 0
  /\ patchOut = NoPatch
  /\ oldEl = NoNode
  /\ newEl = NoNode
  /\ vnode = NoVNode
  /\ requests = 0
  /\ route = NoRoute
  /\ matched = FALSE
  /\ found = <<>>
  /\ reqs = <<>>

LateNext == Start \/ Navigate \/ ClickInc \/ ClickNav \/ WriteField

LateSpec == LateInit /\ [][LateNext]_vars

(***************************************************************************)
(* The client running the application in the tree shape "faulty", where a  *)
(* render raises.                                                          *)
(***************************************************************************)
NoTrees == oldEl = NoNode /\ newEl = NoNode /\ vnode = NoVNode

\* What every run starts from, whatever page, snapshot and tree it is given.
Blank ==
  /\ params = NoParams
  /\ title = ""
  /\ pageHtml = NoOutAll
  /\ visible = {}
  /\ regOrder = <<>>
  /\ regInst = [h \in Hashes |-> 0]
  /\ insts = <<[hash |-> EntryHash, count |-> Default]>>
  /\ compEl = [h \in Hashes |-> 0]
  /\ dom = [n \in Nodes |-> AbsentEl]
  /\ nextEl = 1
  /\ mainEl = 0
  /\ lastVNode = FALSE
  /\ log = <<>>
  /\ err = FALSE
  /\ started = FALSE
  /\ ops = 0
  /\ lastOp = NoOp
  /\ srvComps = <<>>
  /\ torn = FALSE
  /\ pushes = 0
  /\ routerPath = NoRoute
  /\ pending = {}
  /\ listeners = 0
  /\ patchOut = NoPatch
  /\ requests = 0
  /\ route = NoRoute
  /\ matched = FALSE
  /\ found = <<>>
  /\ reqs = <<>>

FaultInit ==
  /\ Blank
  /\ NoTrees
  /\ env = "client"
  /\ path \in Paths
  /\ snapshot \in {NoSnapshot, FullSnapshot}
  /\ hydrateSets = {}
  /\ tree = "faulty"

FaultNext == Start \/ Navigate \/ ClickInc \/ ClickNav \/ WriteField

FaultSpec == FaultInit /\ [][FaultNext]_vars

(***************************************************************************)
(* Writes to router.path: the client running the example application, and  *)
(* the server running it or the tree shape "redirect".                     *)
(***************************************************************************)
RouterInit ==
  /\ Blank
  /\ NoTrees
  /\ env \in {"client", "server"}
  /\ path \in Paths
  /\ snapshot = NoSnapshot
  /\ hydrateSets = {}
  /\ tree \in IF env = "client" THEN {"example"} ELSE {"example", "redirect"}

RouterNext == Start \/ Navigate \/ ClickNav \/ Request

RouterSpec == RouterInit /\ [][RouterNext]_vars

(***************************************************************************)
(* The client running the application in the tree shape "async": hooks     *)
(* that have been called and have not settled are kept in pending, and     *)
(* settle one at a time between the other operations.                      *)
(***************************************************************************)
AsyncInit ==
  /\ Blank
  /\ NoTrees
  /\ env = "client"
  /\ path \in Paths
  /\ snapshot = NoSnapshot
  /\ hydrateSets = {}
  /\ tree = "async"

\* What a pending hook awaits settles and the hook runs to its end.
Settle ==
  /\ env = "client" /\ started /\ ~err
  /\ \E q \in pending :
       /\ Commit(Settled([Cur EXCEPT !.pending = @ \ {q}], q))
       /\ lastOp' = Op(IF q.hook = "prepare" THEN "settlePrepare"
                                             ELSE "settleHydrate",
                       q.inst, insts[q.inst].hash,
                       compEl[insts[q.inst].hash], ImportedValue)
  /\ UNCHANGED <<started, ops, requests>>
  /\ Fixed

AsyncBudget == ops < MaxAsyncOps

AsyncNext ==
  \/ Start
  \/ AsyncBudget /\ Navigate
  \/ AsyncBudget /\ ClickNav
  \/ Settle

AsyncSpec == AsyncInit /\ [][AsyncNext]_vars

(***************************************************************************)
(* patchElement(oldEl, newEl) on element trees.  A node is a text node, a  *)
(* comment or an element with a tag, an attribute map and a child list;    *)
(* id is the identity of a node of the old tree (0: a node that was not in *)
(* the old tree, as cloneNode makes them).  The DOM writes are kept as the *)
(* set of calls made: the method, the node it was called on and the        *)
(* attribute name or child position.                                       *)
(***************************************************************************)
Tags == {"div", "span"}
Texts == {"x", "y"}
AttrNames == {"k"}
AttrValues == {"1", "2"}
AttrMaps == UNION {[S -> AttrValues] : S \in SUBSET AttrNames}

TextNode(t) == [kind |-> "text", tag |-> "", text |-> t, attrs |-> NoAttrs,
                kids |-> <<>>, id |-> 0]
CommentNode == [kind |-> "comment", tag |-> "", text |-> "",
                attrs |-> NoAttrs, kids |-> <<>>, id |-> 0]
Element(tag, attrs, kids) ==
  [kind |-> "element", tag |-> tag, text |-> "", attrs |-> attrs,
   kids |-> kids, id |-> 0]

\* The children a root is given: text, the placeholder comment, and
\* elements with or without an attribute or a text of their own.
InnerNodes ==
  {TextNode(t) : t \in Texts} \cup {CommentNode}
    \cup {Element("span", NoAttrs, <<>>)}
    \cup {Element("div", at, <<>>) : at \in AttrMaps}
    \cup {Element("div", NoAttrs, <<TextNode(t)>>) : t \in Texts}
Roots ==
  {Element("div", at, <<>>) : at \in AttrMaps}
    \cup {Element("div", NoAttrs, kids) :
            kids \in StringsUpTo(InnerNodes, MaxKids)}

\* The nodes of a tree that is in the document, each with its identity.
RECURSIVE Identified(_, _)
Identified(n, id) ==
  [n EXCEPT !.id = id,
            !.kids = [i \in 1..Len(n.kids) |->
                        Identified(n.kids[i], 10 * id + i)]]

\* node.cloneNode(true)
RECURSIVE cloneNode(_)
cloneNode(n) ==
  [n EXCEPT !.id = 0,
            !.kids = [i \in 1..Len(n.kids) |-> cloneNode(n.kids[i])]]

Write(op, node, at) == [op |-> op, node |-> node, at |-> at]
Max(a, b) == IF a >= b THEN a ELSE b

\* The attribute loops of patchElement: what oldEl's attributes become and
\* the removeAttribute and setAttribute calls made.
AttrSync(o, n) ==
  LET gone == {a \in DOMAIN o.attrs : a \notin DOMAIN n.attrs}
      set == {a \in DOMAIN n.attrs :
                a \notin DOMAIN o.attrs \/ o.attrs[a] # n.attrs[a]}
  IN [attrs |-> [a \in (DOMAIN o.attrs \ gone) \cup set |->
                   IF a \in set THEN n.attrs[a] ELSE o.attrs[a]],
      writes |-> {Write("removeAttribute", o.id, a) : a \in gone}
                   \cup {Write("setAttribute", o.id, a) : a \in set}]

\* patchElement, had it patched two elements in place whatever their tags.
RECURSIVE patchAnyTag(_, _), ChildAnyTag(_, _, _)
ChildAnyTag(o, n, i) ==
  CASE i > Len(o.kids) ->
         [there |-> TRUE, node |-> cloneNode(n.kids[i]),
          writes |-> {Write("appendChild", o.id, i)}]
    [] i > Len(n.kids) ->
         [there |-> FALSE, node |-> NoNode,
          writes |-> {Write("removeChild", o.id, i)}]
    [] o.kids[i].kind # n.kids[i].kind ->
         [there |-> TRUE, node |-> cloneNode(n.kids[i]),
          writes |-> {Write("replaceChild", o.id, i)}]
    [] o.kids[i].kind = "text" ->
         IF o.kids[i].text # n.kids[i].text
           THEN [there |-> TRUE,
                 node |-> [o.kids[i] EXCEPT !.text = n.kids[i].text],
                 writes |-> {Write("textContent", o.kids[i].id, 0)}]
           ELSE [there |-> TRUE, node |-> o.kids[i], writes |-> {}]
    [] o.kids[i].kind = "element" ->
         [there |-> TRUE] @@ patchAnyTag(o.kids[i], n.kids[i])
    [] OTHER ->
         [there |-> TRUE, node |-> cloneNode(n.kids[i]),
          writes |-> {Write("replaceChild", o.id, i)}]

patchAnyTag(o, n) ==
  LET len == Max(Len(o.kids), Len(n.kids))
      kept == SelectSeq([i \in 1..len |-> ChildAnyTag(o, n, i)],
                        LAMBDA c : c.there)
  IN [node |-> [o EXCEPT !.attrs = AttrSync(o, n).attrs,
                         !.kids = [i \in 1..Len(kept) |-> kept[i].node]],
      writes |-> AttrSync(o, n).writes
                   \cup UNION {ChildAnyTag(o, n, i).writes : i \in 1..len}]

\* patchElement(oldEl, newEl): the attribute loops, then the child loop
\* over the two child lists as they were when the loop began.
RECURSIVE patchElementDom(_, _), PatchChild(_, _, _)

\* One iteration of the child loop, for position i: whether a node is there
\* afterwards, which, and the writes made.
PatchChild(o, n, i) ==
  CASE i > Len(o.kids) ->
         [there |-> TRUE, node |-> cloneNode(n.kids[i]),
          writes |-> {Write("appendChild", o.id, i)}]
    [] i > Len(n.kids) ->
         [there |-> FALSE, node |-> NoNode,
          writes |-> {Write("removeChild", o.id, i)}]
    [] o.kids[i].kind # n.kids[i].kind ->
         [there |-> TRUE, node |-> cloneNode(n.kids[i]),
          writes |-> {Write("replaceChild", o.id, i)}]
    [] o.kids[i].kind = "text" ->
         IF o.kids[i].text # n.kids[i].text
           THEN [there |-> TRUE,
                 node |-> [o.kids[i] EXCEPT !.text = n.kids[i].text],
                 writes |-> {Write("textContent", o.kids[i].id, 0)}]
           ELSE [there |-> TRUE, node |-> o.kids[i], writes |-> {}]
    [] o.kids[i].kind = "element" /\ o.kids[i].tag = n.kids[i].tag ->
         [there |-> TRUE] @@ patchElementDom(o.kids[i], n.kids[i])
    [] OTHER ->
         [there |-> TRUE, node |-> cloneNode(n.kids[i]),
          writes |-> {Write("replaceChild", o.id, i)}]

patchElementDom(o, n) ==
  LET len == Max(Len(o.kids), Len(n.kids))
      kept == SelectSeq([i \in 1..len |-> PatchChild(o, n, i)],
                        LAMBDA c : c.there)
  IN [node |-> [o EXCEPT !.attrs = AttrSync(o, n).attrs,
                         !.kids = [i \in 1..Len(kept) |-> kept[i].node]],
      writes |-> AttrSync(o, n).writes
                   \cup UNION {PatchChild(o, n, i).writes : i \in 1..len}]

PatchInit ==
  /\ Blank
  /\ env = "client"
  /\ path = RootPath
  /\ snapshot = NoSnapshot
  /\ hydrateSets = {}
  /\ tree = "example"
  /\ oldEl \in {Identified(r, 1) : r \in Roots}
  /\ newEl \in Roots
  /\ vnode = NoVNode

\* patchElement(oldEl, newEl)
Patch ==
  /\ ~patchOut.done
  /\ oldEl # NoNode
  /\ patchOut' = [done |-> TRUE] @@ patchElementDom(oldEl, newEl)
  /\ UNCHANGED <<env, path, params, title, pageHtml, visible, regOrder,
                 regInst, insts, compEl, dom, nextEl, mainEl, lastVNode, log,
                 err, started, ops, lastOp, snapshot, hydrateSets, tree,
                 srvComps, requests, route, matched, found, reqs, torn,
                 pushes, routerPath, pending, listeners, oldEl, newEl, vnode>>

PatchNext == Patch

PatchSpec == PatchInit /\ [][PatchNext]_vars

(***************************************************************************)
(* Handler binding.  render() of a component returns a vnode: an element   *)
(* vnode has a type, an on* property holding a function or none (on: the   *)
(* render that made the closure, 0: no on* property) and children; a child *)
(* is an element vnode, a string, or null (what {cond && <p/>} leaves when *)
(* cond is null).  In the document an element has the handler assigned to  *)
(* its on* property: the vnode's function it calls (val) and the update    *)
(* callback it calls after it.  A text node has the number of strings that *)
(* make its text.                                                          *)
(***************************************************************************)
VText == [kind |-> "text", type |-> "", on |-> 0, kids |-> <<>>]
VNull == [kind |-> "null", type |-> "", on |-> 0, kids |-> <<>>]
VElement(type, on, kids) ==
  [kind |-> "element", type |-> type, on |-> on, kids |-> kids]

\* What the render numbered r may return: a <div> whose children are
\* strings, nulls and buttons with or without an onclick of that render.
VKids(r) ==
  {VText, VNull, VElement("button", r, <<>>), VElement("button", 0, <<>>)}
VRoots(r) ==
  {VElement("div", 0, kids) : kids \in StringsUpTo(VKids(r), MaxKids)}

NoHandler == [val |-> 0, update |-> "none"]
Handler(val, update) == [val |-> val, update |-> update]

\* temp.innerHTML = html(v); temp.firstElementChild.  html writes a string
\* as it is, null as nothing, an element as <type>children</type> with the
\* children's markup joined and the function properties left out; strings
\* next to one another parse into one text node.  wired = FALSE: the parsed
\* element, no on* property assigned.  wired = TRUE: the same element with,
\* on every element, the handler its vnode carries and the update callback
\* of updateComponent.
RECURSIVE DomOf(_, _), DomKids(_, _)
DomOf(v, wired) ==
  [kind |-> "element", tag |-> v.type, text |-> 0,
   on |-> IF wired /\ v.on # 0 THEN Handler(v.on, "updateComponent")
                               ELSE NoHandler,
   kids |-> DomKids(v.kids, wired)]

DomKids(ks, wired) ==
  IF ks = <<>> THEN <<>>
  ELSE LET rest == DomKids(Tail(ks), wired)
       IN CASE Head(ks).kind = "null" -> rest
            [] Head(ks).kind = "text" ->
                 IF rest # <<>> /\ Head(rest).kind = "text"
                   THEN <<[Head(rest) EXCEPT !.text = @ + 1]>> \o Tail(rest)
                   ELSE <<[kind |-> "text", tag |-> "", text |-> 1,
                           on |-> NoHandler, kids |-> <<>>]>> \o rest
            [] OTHER -> <<DomOf(Head(ks), wired)>> \o rest

Parsed(v) == DomOf(v, FALSE)

\* vnodeChildren[i]: undefined past the end, and for a vnode that is a
\* string, null or undefined.
VChild(v, i) == IF i <= Len(v.kids) THEN v.kids[i] ELSE NoVNode

\* patchElement(oldEl, newEl, vnode, update): the on* properties of the
\* vnode are assigned to oldEl, wrapped with update; the child at position
\* i is patched against vnodeChildren[i].  A child that is appended or
\* replaces another is newChild.cloneNode(true).
RECURSIVE patchElementWired(_, _, _, _), WiredChild(_, _, _, _, _)
WiredChild(o, n, v, update, i) ==
  CASE i > Len(o.kids) -> [there |-> TRUE, node |-> n.kids[i]]
    [] i > Len(n.kids) -> [there |-> FALSE, node |-> o.kids[i]]
    [] o.kids[i].kind # n.kids[i].kind ->
         [there |-> TRUE, node |-> n.kids[i]]
    [] o.kids[i].kind = "text" ->
         [there |-> TRUE,
          node |-> [o.kids[i] EXCEPT !.text = n.kids[i].text]]
    [] o.kids[i].kind = "element" /\ o.kids[i].tag = n.kids[i].tag ->
         [there |-> TRUE,
          node |-> patchElementWired(o.kids[i], n.kids[i], VChild(v, i),
                                     update)]
    [] OTHER -> [there |-> TRUE, node |-> n.kids[i]]

patchElementWired(o, n, v, update) ==
  LET len == Max(Len(o.kids), Len(n.kids))
      kept == SelectSeq([i \in 1..len |-> WiredChild(o, n, v, update, i)],
                        LAMBDA c : c.there)
  IN [o EXCEPT !.on = IF v.kind = "element" /\ v.on # 0
                        THEN Handler(v.on, update) ELSE @,
               !.kids = [i \in 1..Len(kept) |-> kept[i].node]]

\* One routed component: oldEl is its element in the document, none before
\* the first route render.
WireInit ==
  /\ Blank
  /\ env = "client"
  /\ path = RootPath
  /\ snapshot = NoSnapshot
  /\ hydrateSets = {}
  /\ tree = "example"
  /\ NoTrees

WireFrame ==
  UNCHANGED <<env, path, params, title, pageHtml, visible, regOrder,
              regInst, insts, compEl, dom, nextEl, mainEl, lastVNode, log,
              err, started, snapshot, hydrateSets, tree, srvComps, requests,
              route, matched, found, reqs, torn, pushes, routerPath, pending,
              listeners, patchOut>>

\* updateComponent(component): render, parse, patchElement(container,
\* newEl, vnode, () => this.updateComponent(component)).
WireUpdate(container, v) ==
  patchElementWired(container, Parsed(v), v, "updateComponent")

\* renderRoute as the component's element sees it.  patchRoute: the slot of
\* the component gets the parsed markup (innerHTML on the first render, a
\* clone where the slot held the placeholder comment), or the element that
\* is there is patched, with no vnode of its own and the no-op callback.
\* assignElements: updateComponent(component).
WireRoute ==
  /\ ops < MaxWireOps
  /\ \E v \in VRoots(ops + 1), inPlace \in BOOLEAN :
       /\ inPlace => oldEl # NoNode
       /\ oldEl' = WireUpdate(IF inPlace
                                THEN patchElementWired(oldEl, Parsed(v),
                                                       NoVNode, "noop")
                                ELSE Parsed(v), v)
       /\ newEl' = Parsed(v)
       /\ vnode' = v
  /\ ops' = ops + 1
  /\ lastOp' = Op("renderRoute", 0, "", 0, 0)
  /\ WireFrame

\* A field of the component is written: updateComponent with what render
\* returns now.
WireWrite ==
  /\ ops < MaxWireOps
  /\ oldEl # NoNode
  /\ \E v \in VRoots(ops + 1) :
       /\ oldEl' = WireUpdate(oldEl, v)
       /\ newEl' = Parsed(v)
       /\ vnode' = v
  /\ ops' = ops + 1
  /\ lastOp' = Op("write", 0, "", 0, 0)
  /\ WireFrame

\* The event of an assigned on* property fires on the child at position i:
\* (e) => { val(e); if (update) update(); }
WireClick ==
  /\ ops < MaxWireOps
  /\ oldEl # NoNode
  /\ \E i \in 1..Len(oldEl.kids), v \in VRoots(ops + 1) :
       /\ oldEl.kids[i].on # NoHandler
       /\ IF oldEl.kids[i].on.update = "updateComponent"
            THEN /\ oldEl' = WireUpdate(oldEl, v)
                 /\ newEl' = Parsed(v)
                 /\ vnode' = v
            ELSE UNCHANGED <<oldEl, newEl, vnode>>
       /\ lastOp' = Op("click", 0, "", 0, oldEl.kids[i].on.val)
  /\ ops' = ops + 1
  /\ WireFrame

WireNext == WireRoute \/ WireWrite \/ WireClick

WireSpec == WireInit /\ [][WireNext]_vars

(***************************************************************************)
(* The browser's back and forward buttons.  popstate is dispatched to the  *)
(* listeners registered when the dispatch begins; a { once: true }         *)
(* listener is removed as it is invoked, and each one runs                 *)
(* renderRoute(location.pathname).                                         *)
(***************************************************************************)
RECURSIVE Dispatch(_, _, _)
Dispatch(s, n, href) ==
  IF n = 0 THEN s ELSE Dispatch(renderRoute(s, href), n - 1, href)

popstate(s, href) == Dispatch([s EXCEPT !.listeners = 0], s.listeners, href)

\* The user goes back or forward to a history entry whose path is href.
PopState ==
  /\ ClientReady
  /\ listeners > 0
  /\ \E href \in Paths :
       /\ Commit(popstate(Cur, href))
       /\ lastOp' = Op("popstate", 0, "", 0, 0)
  /\ ops' = ops + 1
  /\ UNCHANGED <<started, requests>>
  /\ Fixed

PopInit == Init /\ env = "client"

PopNext == Start \/ Navigate \/ ClickNav \/ PopState

PopSpec == PopInit /\ [][PopNext]_vars

(***************************************************************************)
(* Properties.                                                             *)
(***************************************************************************)
OpSeg == (lastOp.from + 1)..Len(log)
IsTransition == lastOp.op \in {"start", "navigate", "clickNav"}
IsMark(k) == log[k].ev \in {"renderRoute", "request"}
\* Position in log of the route render performed by the last operation.
RouteMark == CHOOSE k \in OpSeg : log[k].ev = "renderRoute"
Destroys == {k \in OpSeg : log[k].ev = "destroy"}
KidHashes(p) == {TypeOf(Kids(p)[k]) : k \in 1..Len(Kids(p))}
Parents(c) == {p \in Hashes : c \in KidHashes(p)}
\* The route render or page request during which log[k] was recorded.
MarkOf(k) ==
  CHOOSE m \in 1..k : IsMark(m) /\ \A j \in (m + 1)..k : ~IsMark(j)

\* C1: State/DOM synchronisation.  In every quiescent client state, for
\* every visible component with an associated element attached under the
\* mount point, the text that element shows for the component's field is
\* the field value of the instance the registry holds for that fingerprint.
C1_StateDomSync ==
  (env = "client" /\ started /\ ~err) =>
    \A h \in CompHashes :
      (h \in visible /\ Attached(Cur, h, compEl[h])) =>
        dom[ElNode(Cur, h, compEl[h])].shown.count
          = insts[findComponentByHash(Cur, h)].count

\* C2: Reactivity round-trip.  A field write through the reactivity proxy
\* on a component whose fingerprint has an associated element stores the
\* value, runs exactly one patch pass, on that element and for the written
\* object, and then exactly one update hook of that object, all within the
\* write; so each of k consecutive writes adds one patch pass.
C2_ReactivityRoundTrip ==
  (lastOp.op = "write" /\ lastOp.el # 0) =>
    LET patches == {k \in OpSeg : log[k].ev = "patch"}
        updates == {k \in OpSeg : log[k].ev = "update"}
    IN /\ insts[lastOp.inst].count = lastOp.val
       /\ Cardinality(patches) = 1
       /\ Cardinality(updates) = 1
       /\ \A k \in patches :
            /\ log[k].el = lastOp.el
            /\ log[k].inst = lastOp.inst
            /\ \A j \in updates : k < j /\ log[j].inst = lastOp.inst
       /\ Attached(Cur, lastOp.hash, lastOp.el) =>
            dom[ElNode(Cur, lastOp.hash, lastOp.el)].shown.count = lastOp.val

\* C2 witness: a second write in a row on a component whose element is
\* mounted has been patched in.
C2_Witness ==
  /\ lastOp.op = "write"
  /\ lastOp.val = 2
  /\ Attached(Cur, lastOp.hash, lastOp.el)
  /\ dom[ElNode(Cur, lastOp.hash, lastOp.el)].shown.count = 2
  /\ Cardinality({k \in 1..Len(log) :
                    log[k].ev = "update" /\ log[k].inst = lastOp.inst}) >= 2

\* C3: Reactivity isolation.  A field write on component X leaves every
\* other component Y untouched: Y's element, Y's registry instance and its
\* field, and the visible set.
C3_ReactivityIsolation ==
  [][lastOp'.op = "write" =>
       /\ visible' = visible
       /\ \A n \in Nodes : TypeOf(n) # lastOp'.hash => dom'[n] = dom[n]
       /\ \A y \in CompHashes \ {lastOp'.hash} :
            /\ regInst'[y] = regInst[y]
            /\ insts'[regInst'[y]].count = insts[regInst[y]].count]_vars

\* C4: Prepare-before-render.  In both environments every render of an
\* instance is preceded by a prepare of that instance.
C4_PrepareBeforeRender ==
  \A k \in 1..Len(log) :
    log[k].ev = "render" =>
      \E j \in 1..(k - 1) : log[j].ev = "prepare" /\ log[j].inst = log[k].inst

\* C5: Destroy precondition.  destroy is invoked only on an instance that
\* has gone through prepare, render and hydrate before.
C5_DestroyOnlyMounted ==
  \A k \in 1..Len(log) :
    log[k].ev = "destroy" =>
      \A e \in {"prepare", "render", "hydrate"} :
        \E j \in 1..(k - 1) : log[j].ev = e /\ log[j].inst = log[k].inst

\* C6: Destroy only on leaving the visible set.  A route transition
\* destroys a component only if its fingerprint was visible before the
\* transition and is not visible after it.
C6_DestroyOnlyOnLeaving ==
  (env = "client" /\ IsTransition) =>
    \A k \in Destroys :
      /\ log[k].hash \in log[RouteMark].vis
      /\ log[k].hash \notin visible

\* C7: Destroy ordering.  When a transition destroys a parent and the child
\* in its render output, the child's destroy comes first.
C7_DestroyChildFirst ==
  (env = "client" /\ IsTransition) =>
    \A kp \in Destroys : \A kc \in Destroys :
      log[kc].hash \in KidHashes(log[kp].hash) => kc < kp

\* C8: Prepare ordering.  Every prepare of a child component is preceded by
\* a prepare of each parent rendered on the same page (its route matches
\* the path of the route render or page request): within the same route
\* render or page request, or, for the client entrypoint, by the prepare
\* start() performs.
C8_PrepareParentFirst ==
  \A k \in 1..Len(log) :
    (log[k].ev = "prepare" /\ log[k].hash # EntryHash) =>
      \A p \in Parents(log[k].hash) :
        RouteShown(p, log[MarkOf(k)].path) =>
          \E j \in 1..(k - 1) :
            /\ log[j].ev = "prepare"
            /\ log[j].hash = p
            /\ \/ (p = EntryHash /\ env = "client")
               \/ \A m \in j..k : ~IsMark(m)

\* C9: Destroyed is terminal.  After destroy has been invoked on an
\* instance, the engine invokes no render, prepare, hydrate or update on it.
C9_DestroyedIsTerminal ==
  \A j \in 1..Len(log) : \A k \in (j + 1)..Len(log) :
    (log[j].ev = "destroy" /\ log[k].inst = log[j].inst) =>
      log[k].ev \notin {"render", "prepare", "hydrate", "update"}

\* C10: Registry entry dropped on destroy.  After a route transition, the
\* registry has no entry for a fingerprint the transition destroyed and
\* that no traversal has met since.
C10_EntryDroppedOnDestroy ==
  (env = "client" /\ IsTransition) =>
    \A k \in Destroys :
      log[k].hash \notin visible =>
        findComponentByHash(Cur, log[k].hash) = 0

\* Position in log of the first event of instance i.
FirstEvent(i) == CHOOSE k \in 1..Len(log) :
                   log[k].inst = i /\ \A j \in 1..(k - 1) : log[j].inst # i
\* Renders of the html pass of a route render: those after its app.render.
RouteRenders(h) ==
  {k \in OpSeg : k > RouteMark /\ log[k].ev = "render" /\ log[k].hash = h}

\* C11: Hydration snapshot application.  When start returns with a snapshot
\* in the page, for every rendered component with a state field and a
\* snapshot entry, the render that produced the markup first inserted into
\* the document (the first render of the component in the route render) was
\* invoked on an object holding the snapshot value, and the registry
\* instance holds that value (unless its hydrate has assigned the field).
C11_SnapshotApplied ==
  (env = "client" /\ lastOp.op = "start" /\ snapshot.present /\ ~err) =>
    \A h \in (visible \cap Stateful) \cap snapshot.states :
      /\ \A k \in RouteRenders(h) :
           (\A j \in RouteRenders(h) : k <= j) => log[k].count = SnapValue
      /\ h \notin hydrateSets =>
           insts[findComponentByHash(Cur, h)].count = SnapValue

\* C12: Snapshot consumed exactly once.  Snapshot values are applied only
\* before the first patchRoute has completed, and an object whose first
\* hook invocation is a render made after that holds the declared default.
C12_SnapshotOnce ==
  \A k \in 1..Len(log) :
    /\ log[k].ev = "snapshot" => log[k].first
    /\ (log[k].ev = "render" /\ ~log[k].first /\ FirstEvent(log[k].inst) = k)
         => log[k].count = Default

\* C12 witness: with a snapshot applied by start, a later navigation has
\* rendered a new object of a component that has a snapshot entry.
C12_Witness ==
  /\ lastOp.op = "navigate" /\ ~err
  /\ \E j \in 1..lastOp.from : log[j].ev = "snapshot"
  /\ \E k \in OpSeg :
       /\ log[k].ev = "render" /\ FirstEvent(log[k].inst) = k
       /\ log[k].hash \in snapshot.states \cap Stateful
       /\ log[k].count = Default

\* C13: Snapshot/tree divergence is a silent skip.  With a snapshot in the
\* page (whether it has entries for fingerprints outside the tree or lacks
\* entries for components of the tree), start raises no error, and a
\* rendered component without entry keeps its declared default.
C13_SnapshotMismatchSilent ==
  (env = "client" /\ lastOp.op = "start" /\ snapshot.present) =>
    /\ ~err
    /\ \A h \in (visible \cap Stateful) \ snapshot.states :
         h \notin hydrateSets =>
           insts[findComponentByHash(Cur, h)].count = Default

\* Operations that serialize the page, and the mark of the last one in log.
PageOps == {"start", "navigate", "clickNav", "request"}
PageMark == CHOOSE k \in OpSeg : IsMark(k)
RoutedNodes == {n \in Nodes : RouteOf(n) # NoRoute}
\* Names a route pattern binds.
BoundNames(r) ==
  {Tail(Segments(r)[i]) :
     i \in {j \in 1..Len(Segments(r)) : IsParam(Segments(r)[j])}}
\* Renders of class h since the page mark.
PageRenders(h) ==
  {k \in OpSeg : k > PageMark /\ log[k].ev = "render" /\ log[k].hash = h}
\* Component nodes in the render output of the component at node n.
NodesInside(n) == {Kids(TypeOf(n))[k] : k \in 1..Len(Kids(TypeOf(n)))}

\* C15: Route filtering with parameter propagation.  After the page has
\* been serialized, a routed node whose pattern matches the path is in the
\* markup, each of its renders saw the values of its ':name' segments in
\* params (the Profile markup shows params.id), and a routed node whose
\* pattern does not match is the placeholder and has left every name no
\* matching pattern binds as it was before the serialization.
C15_RouteFiltering ==
  (lastOp.op \in PageOps /\ ~err) =>
    \A n \in RoutedNodes :
      IF matchRoute(RouteOf(n), path)
        THEN /\ pageHtml[n].kind = "element"
             /\ PageRenders(TypeOf(n)) # {}
             /\ \A k \in PageRenders(TypeOf(n)) :
                  log[k].params =
                    matchRouteParams(log[k].params, RouteOf(n), path)
             /\ \A x \in BoundNames(RouteOf(n)) :
                  /\ x \in DOMAIN params
                  /\ x = IdName => pageHtml[n].id = params[x]
        ELSE /\ pageHtml[n] = Placeholder
             /\ \A x \in BoundNames(RouteOf(n)) :
                  (\A m \in RoutedNodes :
                     matchRoute(RouteOf(m), path) =>
                       x \notin BoundNames(RouteOf(m))) =>
                    /\ x \in DOMAIN params <=> x \in DOMAIN log[PageMark].params
                    /\ x \in DOMAIN params =>
                         params[x] = log[PageMark].params[x]

\* C18: Inert placeholder for unmatched routes.  After the page has been
\* serialized, every routed child of the entrypoint has its slot in the
\* markup: a node whose route does not match the path is exactly the
\* placeholder, no component node inside it has markup, and (when no
\* handler has re-rendered its own component after the serialization) its
\* class has not been rendered since and is not in the visible set.
C18_InertPlaceholder ==
  (lastOp.op \in PageOps /\ ~err) =>
    \A n \in RoutedNodes :
      ~RouteShown(n, path) =>
        /\ pageHtml[n] = Placeholder
        /\ \A m \in NodesInside(n) : pageHtml[m] = NoOut
        /\ lastOp.op # "clickNav" =>
             /\ PageRenders(TypeOf(n)) = {}
             /\ TypeOf(n) \notin visible
             /\ \A k \in 1..Len(srvComps) :
                  srvComps[k].visible =>
                    insts[srvComps[k].inst].hash # TypeOf(n)

\* C19: Idempotent serialize.  When the page is serialized again at the
\* same path right after a serialization, with no field assigned in
\* between (no component assigns its field in hydrate), it raises no error
\* and the markup is the same, on the server and in the client, where each
\* serialization renders new instances.
C19_IdempotentSerialize ==
  [][(/\ lastOp.op \in PageOps /\ ~err
      /\ lastOp'.op \in {"navigate", "request"}
      /\ path' = path
      /\ hydrateSets = {})
       => (~err' /\ pageHtml' = pageHtml)]_vars

\* C19 witness: the client started at /profile/42 and then rendered that
\* route again; new instances were rendered and the markup shows params.id.
C19_Witness ==
  /\ env = "client" /\ ~err
  /\ lastOp.op = "navigate"
  /\ ops = 1
  /\ hydrateSets = {}
  /\ path = ProfilePath
  /\ log[CHOOSE k \in 1..Len(log) : IsMark(k) /\ \A j \in 1..(k - 1) : ~IsMark(j)].path
       = ProfilePath
  /\ pageHtml["Profile"] = ElementOut(0, <<"4", "2">>)
  /\ Cardinality({k \in 1..Len(log) :
                    log[k].ev = "render" /\ log[k].hash = "Profile"
                    /\ \E m \in 1..(k - 1) : IsMark(m)}) >= 2

\* What a page request for path p yields when it is served on its own: the
\* component nodes serialized, the classes prepared, the page's title.
ShownNodes(p) ==
  SelectSeq(DocOrder, LAMBDA n :
    \/ RouteOf(n) # NoRoute /\ RouteShown(n, p)
    \/ \E par \in RoutedNodes : RouteShown(par, p) /\ n \in NodesInside(par))
PageOf(p) ==
  [n \in Nodes |->
     IF \E k \in 1..Len(ShownNodes(p)) : ShownNodes(p)[k] = n
       THEN ElementOut(Default,
                       IF n = "Profile"
                         THEN matchRouteParams(NoParams, ProfileRoute, p)[IdName]
                         ELSE <<>>)
       ELSE NoOut]
PreparedOf(p) ==
  <<EntryHash>> \o [k \in 1..Len(ShownNodes(p)) |-> TypeOf(ShownNodes(p)[k])]
Isolated(r) ==
  /\ r.page = PageOf(r.path)
  /\ r.prepared = PreparedOf(r.path)
  /\ \A n \in RoutedNodes : RouteShown(n, r.path) => r.title = TypeOf(n)

\* C14: Server request isolation under interleaving.  The answer to a page
\* request whose handling overlapped with another request's is the one the
\* request gets when served on its own: the markup, the title and the
\* classes prepared for it are those of its own path.
C14_RequestIsolation ==
  \A r \in 1..Len(reqs) :
    (reqs[r].done /\ reqs[r].overlapped) => Isolated(reqs[r])

\* Events recorded between the calls found[i] and found[j].
Between(i, j) == (found[i].at + 1)..found[j].at
\* patchElement of the page, which ends the html pass of a route render.
IsPagePatch(k) == log[k].ev = "patch" /\ log[k].inst = 0
\* Between the two calls a route render destroyed the instance the first
\* call returned and its html pass rendered the class again.
Recreated(i, j) ==
  \E d \in Between(i, j) :
    /\ log[d].ev = "destroy" /\ log[d].inst = found[i].inst
    /\ \E q \in (d + 1)..found[j].at :
         /\ IsPagePatch(q)
         /\ \A k \in (d + 1)..(q - 1) : ~IsMark(k) /\ ~IsPagePatch(k)
         /\ \E r \in (d + 1)..(q - 1) :
              log[r].ev = "render" /\ log[r].hash = found[i].hash

\* C20: Fingerprint stability.  For two calls of findComponentByHash with
\* the same hash: with no render between them they return the same
\* instance; when a route transition between them destroyed the instance
\* the first call returned and rendered the class again, the second call
\* returns another instance, created after the first call.  A call for a
\* hash that has not been registered returns none.
C20_FingerprintStability ==
  /\ \A i \in 1..Len(found) : \A j \in (i + 1)..Len(found) :
       found[i].hash = found[j].hash =>
         /\ (\A k \in Between(i, j) : log[k].ev # "render") =>
              found[j].inst = found[i].inst
         /\ (found[i].inst # 0 /\ Recreated(i, j)) =>
              /\ found[j].inst # found[i].inst
              /\ found[j].inst > found[i].n
  /\ \A j \in 1..Len(found) :
       (\A k \in 1..found[j].at : log[k].hash # found[j].hash) =>
         found[j].inst = 0

\* C20 witness: Home was looked up, a route render destroyed that instance
\* and rendered Home again, and the next lookup returned an instance created
\* after the first call.
C20_Witness ==
  /\ Len(found) = 2
  /\ found[1].hash = "Home" /\ found[2].hash = "Home"
  /\ found[1].inst # 0
  /\ found[2].inst > found[1].n
  /\ Recreated(1, 2)

(***************************************************************************)
(* Reference matcher, written on character positions.                      *)
(***************************************************************************)
\* Positions where a segment starts / the position where that segment ends.
SegStarts(str) ==
  {i \in 1..Len(str) : str[i] # "/" /\ (i = 1 \/ str[i - 1] = "/")}
SegEnd(str, i) ==
  CHOOSE j \in i..Len(str) :
    /\ \A k \in i..j : str[k] # "/"
    /\ (j = Len(str) \/ str[j + 1] = "/")
NthStart(str, k) ==
  CHOOSE i \in SegStarts(str) :
    Cardinality({j \in SegStarts(str) : j <= i}) = k
RefSegments(str) ==
  [k \in 1..Cardinality(SegStarts(str)) |->
     SubSeq(str, NthStart(str, k), SegEnd(str, NthStart(str, k)))]
RefMatch(r, p) ==
  LET rs == RefSegments(r)
      ps == RefSegments(p)
  IN /\ Len(rs) = Len(ps)
     /\ \A i \in 1..Len(rs) : rs[i][1] = ":" \/ rs[i] = ps[i]
\* Bindings left after a match: for each name the last segment binding it.
RefParams(old, r, p) ==
  LET rs == RefSegments(r)
      ps == RefSegments(p)
      Binders(x) == {i \in 1..Len(rs) : rs[i][1] = ":" /\ Tail(rs[i]) = x}
      Last(S) == CHOOSE i \in S : \A j \in S : j <= i
      Names == {Tail(rs[i]) : i \in {j \in 1..Len(rs) : rs[j][1] = ":"}}
  IN IF ~RefMatch(r, p) THEN old
     ELSE [x \in DOMAIN old \cup Names |->
             IF Binders(x) # {} THEN ps[Last(Binders(x))] ELSE old[x]]
\* str with one more "/" after position i, where it is leading, trailing or
\* next to another "/".
InsertSlash(str, i) ==
  SubSeq(str, 1, i) \o <<"/">> \o SubSeq(str, i + 1, Len(str))
SlashSpots(str) ==
  {i \in 0..Len(str) :
     i = 0 \/ i = Len(str) \/ str[i] = "/" \/ str[i + 1] = "/"}

\* C16: matchRoute agrees with the reference matcher for every pattern and
\* path over the bounded alphabet: same answer, same params afterwards (for
\* a name bound twice the later segment's value), and one more leading,
\* trailing or repeated slash in the pattern or in the path changes neither.
C16_MatchRouteReference ==
  lastOp.op = "match" =>
    /\ matched = RefMatch(route, path)
    /\ params = RefParams(StaleParams, route, path)
    /\ \A i \in SlashSpots(path) :
         /\ matchRoute(route, InsertSlash(path, i)) = matched
         /\ matchRouteParams(StaleParams, route, InsertSlash(path, i)) = params
    /\ \A i \in SlashSpots(route) :
         /\ matchRoute(InsertSlash(route, i), path) = matched
         /\ matchRouteParams(StaleParams, InsertSlash(route, i), path) = params

\* C16 witness: the pattern ":a/:a" matched the path "a/b" and the later
\* binding of "a" is the one left, over the stale one.
C16_Witness ==
  /\ lastOp.op = "match"
  /\ route = <<":", "a", "/", ":", "a">>
  /\ path = <<"a", "/", "b">>
  /\ matched
  /\ params[<<"a">>] = <<"b">>

\* C17: a node with route "*" passes the route test of html for every
\* current path, and the test leaves params as they were.
C17_WildcardAlways ==
  (lastOp.op = "check" /\ route = MatchAll) =>
    /\ matched
    /\ params = StaleParams

\* C17 witness: route "*" tested against a path of two segments.
C17_Witness ==
  /\ lastOp.op = "check"
  /\ route = MatchAll
  /\ Len(Segments(path)) = 2
  /\ matched
  /\ params = StaleParams

\* C21: One registry entry per fingerprint.  In every state the registry of
\* the client holds each hash at most once, and the registry of the server
\* holds at most one entry whose instance is of a given class, so that
\* neither has more entries than there are component classes.
C21_OneEntryPerHash ==
  /\ \A i \in 1..Len(regOrder) : \A j \in 1..Len(regOrder) :
       regOrder[i] = regOrder[j] => i = j
  /\ \A i \in 1..Len(srvComps) : \A j \in 1..Len(srvComps) :
       insts[srvComps[i].inst].hash = insts[srvComps[j].inst].hash => i = j
  /\ Len(regOrder) <= Cardinality(Hashes)
  /\ Len(srvComps) <= Cardinality(Hashes)

\* Classes reachable from the entrypoint's render output, through the
\* render output of nested components.
RECURSIVE ReachableFrom(_)
ReachableFrom(h) ==
  {h} \cup UNION {ReachableFrom(TypeOf(Kids(h)[k])) : k \in 1..Len(Kids(h))}

\* C22: setupAllComponents completeness.  Once start has run
\* setupAllComponents, the registry has an entry, holding an instance of
\* the class, for the entrypoint and for every class reachable from its
\* render output, whatever the routes and the path; and no later html call
\* fails for want of an entry (without a snapshot nothing else can fail).
C22_SetupComplete ==
  (env = "client" /\ started) =>
    /\ \A h \in ReachableFrom(EntryHash) :
         /\ HasEntry(Cur, h)
         /\ regInst[h] # 0
         /\ insts[regInst[h]].hash = h
    /\ ~snapshot.present => ~err

\* C22 witness: the client started at "/profile", where no route matches,
\* and was then taken to "/": html met Home and the Counter nested in it
\* and serialized both.
C22_Witness ==
  /\ env = "client" /\ started /\ ~err
  /\ lastOp.op = "navigate" /\ ops = 1
  /\ log[CHOOSE k \in 1..Len(log) : IsMark(k) /\ \A j \in 1..(k - 1) : ~IsMark(j)].path
       = OtherPath
  /\ path = RootPath
  /\ pageHtml["Home"].kind = "element"
  /\ pageHtml["HomeCounter"].kind = "element"

\* The last operation rendered a Counter whose render output holds the
\* component node Late.
LateMet ==
  /\ tree = "late"
  /\ \E k \in OpSeg :
       log[k].ev = "render" /\ log[k].hash = "Counter" /\ log[k].count > Default

\* C23: Resolve-or-create.  When html meets the component node Late, whose
\* class has no registry entry, the call does not fail: the class gets an
\* entry and the component is rendered.
C23_ResolveOrCreate ==
  LateMet =>
    /\ ~err
    /\ HasEntry(Cur, "Late")
    /\ \E k \in OpSeg : log[k].ev = "render" /\ log[k].hash = "Late"

\* Classes of the component nodes that serialize for path p.
ShownHashes(p) == {TypeOf(ShownNodes(p)[k]) : k \in 1..Len(ShownNodes(p))}

\* C24: Visible set accuracy.  After start and after every completed route
\* transition (link click, popstate or a handler's write of router.path)
\* the visible set is exactly the set of classes of the component nodes
\* that serialize for the current path.
C24_VisibleAccurate ==
  (env = "client" /\ IsTransition /\ ~err) => visible = ShownHashes(path)

\* C25: Render failure atomicity.  When the render of a component raises
\* during updateComponent or patchRoute, the call is abandoned at that
\* render (nothing runs after it) and the DOM under the mount point is what
\* it was when the call began.
C25_RenderFailureAtomic ==
  (tree = "faulty" /\ err) =>
    /\ ~torn
    /\ log[Len(log)].ev = "render"
    /\ RenderThrows(Cur, log[Len(log)].inst)

\* C25 witness: a route render onto a page that is already in the document
\* fails in the render of Profile.
C25_Witness ==
  /\ tree = "faulty" /\ err /\ ~torn
  /\ lastOp.op = "navigate"
  /\ log[Len(log)].hash = "Profile"
  /\ dom["Home"].present
  /\ lastVNode

\* C26: Missing DOM target is a silent no-op.  A field write through the
\* proxy of a component whose class has no associated element (el = 0: the
\* snapshot entries are written before any element is associated) stores
\* the value and goes straight on to the update hook: no render, no patch
\* pass, no registration and no error in between.
C26_MissingTargetNoOp ==
  \A k \in 1..Len(log) :
    (log[k].ev = "snapshot" /\ log[k].el = 0) =>
      /\ k < Len(log)
      /\ log[k + 1].ev = "update"
      /\ log[k + 1].inst = log[k].inst
      /\ log[k + 1].count = SnapValue

\* C26 witness: a start from a page with a snapshot has written Home's
\* entry before Home's element existed, and went on.
C26_Witness ==
  /\ env = "client" /\ started /\ ~err /\ snapshot.present
  /\ \E k \in 1..Len(log) : /\ log[k].ev = "snapshot" /\ log[k].el = 0
                             /\ log[k].hash = "Home" /\ log[k].first
  /\ dom["Home"].present

\* The events a step appends to the log.
NewEvents == (Len(log) + 1)..Len(log')
RouteMarks == {k \in NewEvents : log'[k].ev = "renderRoute"}
LastOf(e) ==
  IF \E k \in NewEvents : log'[k].ev = e
    THEN CHOOSE k \in NewEvents :
           /\ log'[k].ev = e
           /\ \A j \in NewEvents : log'[j].ev = e => j <= k
    ELSE 0

\* A handler's write of router.path on the client: one pushState, one route
\* render for the written path, from its start through the page patch to
\* the hydrate of every component of the page, all before the wrapper's
\* update() runs; the context path is then the written path.
ClientWrite ==
  (lastOp'.op = "clickNav" /\ ~err') =>
    /\ pushes' = pushes + 1
    /\ Cardinality(RouteMarks) = 1
    /\ \A m \in RouteMarks :
         /\ log'[m].path = routerPath'
         /\ \E q \in NewEvents :
              /\ q > m /\ log'[q].ev = "patch" /\ log'[q].inst = 0
              /\ \A h \in ShownHashes(routerPath') :
                   \E j \in NewEvents :
                     j > q /\ log'[j].ev = "hydrate" /\ log'[j].hash = h
         /\ \E r \in NewEvents :
              /\ log'[r].ev = "render" /\ log'[r].inst = lastOp'.inst
              /\ r > LastOf("hydrate") /\ r > LastOf("prepare")
    /\ path' = routerPath'

\* The writes of router.path during a page request (the handler's own, and
\* the one in Home's prepare in the tree shape "redirect"): no pushState, no
\* route render, no patch, and no render after the html pass of template.
ServerWrite ==
  lastOp'.op = "request" =>
    /\ pushes' = pushes
    /\ RouteMarks = {}
    /\ \A k \in NewEvents : log'[k].ev # "patch"
    /\ \A j \in NewEvents : \A k \in NewEvents :
         log'[j].ev = "prepare" /\ log'[k].ev = "render" => k < j
    /\ routerPath' # NoRoute

\* C27: Client navigation by router write.  On the client one write
\* router.path := p pushes exactly one history entry and performs exactly
\* one full route render for p, both done when the write returns, and the
\* context path is then p; on the server the write pushes nothing and
\* renders nothing.
C27_RouterWrite == [][ClientWrite /\ ServerWrite]_vars

\* C27 witness: the handler of Home's button has written "/about" on the
\* client.
C27_Witness ==
  /\ env = "client" /\ lastOp.op = "clickNav" /\ ~err
  /\ pushes = 1
  /\ routerPath = AboutPath /\ path = AboutPath
  /\ pageHtml["About"].kind = "element"

\* C28: router.path is the single source of truth.  In both environments
\* the value read from router.path (the context path) is the value last
\* written to it.
C28_RouterPathTruth == routerPath # NoRoute => path = routerPath

\* Positions before k where hook e was called on instance i.
Calls(e, i, k) == {j \in 1..(k - 1) : log[j].ev = e /\ log[j].inst = i}
Latest(S) == CHOOSE j \in S : \A m \in S : m <= j
\* The prepare of instance i has been called and has run to its end before
\* position k of the log.
PrepareDone(i, k) ==
  /\ Calls("prepare", i, k) # {}
  /\ <<insts[i].hash, "prepare">> \in AsyncHooks =>
       \E c \in Calls("prepared", i, k) : c > Latest(Calls("prepare", i, k))
FirstMark ==
  CHOOSE k \in 1..Len(log) :
    log[k].ev = "renderRoute" /\ \A j \in 1..(k - 1) : log[j].ev # "renderRoute"

\* C29: Client hydrate waits for prepare.  On the client no hydrate is
\* called on a component before that component's prepare, asynchronous or
\* not, has run to its end; and the first route render does not start
\* before the entrypoint's prepare has run to its end.
C29_HydrateAfterPrepare ==
  (env = "client" /\ started) =>
    /\ \A k \in 1..Len(log) :
         log[k].ev = "hydrate" => PrepareDone(log[k].inst, k)
    /\ PrepareDone(1, FirstMark)

\* Instance i was destroyed after its hydrate was last called, before
\* position k of the log.
DestroyedSince(i, k) ==
  /\ Calls("hydrate", i, k) # {}
  /\ \E x \in Calls("destroy", i, k) : x > Latest(Calls("hydrate", i, k))

\* C30: No cancellation of pending hooks.  When a pending hydrate settles
\* and assigns a field of an instance whose destroy has run since the hook
\* was called, the write is stored and takes the whole update path: render
\* of that instance, patch pass on the element associated with its class,
\* update hook.
C30_LateWrite ==
  (lastOp.op = "settleHydrate" /\ lastOp.hash \in Stateful /\ ~err
     /\ lastOp.el # 0 /\ DestroyedSince(lastOp.inst, lastOp.from + 1)) =>
    /\ insts[lastOp.inst].count = ImportedValue
    /\ \E r \in OpSeg : \E p \in OpSeg : \E u \in OpSeg :
         /\ r < p /\ p < u
         /\ log[r].ev = "render" /\ log[r].inst = lastOp.inst
         /\ log[p].ev = "patch" /\ log[p].inst = lastOp.inst
         /\ log[p].el = lastOp.el
         /\ log[u].ev = "update" /\ log[u].inst = lastOp.inst
         /\ log[u].count = ImportedValue

\* C30 witness: the Counter's hydrate, called at "/", settles after a route
\* transition to "/about" has destroyed the Counter.
C30_Witness ==
  /\ lastOp.op = "settleHydrate" /\ lastOp.hash = "Counter" /\ ~err
  /\ lastOp.el # 0
  /\ DestroyedSince(lastOp.inst, lastOp.from + 1)
  /\ path = AboutPath
  /\ insts[lastOp.inst].count = ImportedValue
  /\ \E u \in OpSeg : log[u].ev = "update" /\ log[u].inst = lastOp.inst

\* A tree without the identities of its nodes.
RECURSIVE Shape(_)
Shape(n) ==
  [n EXCEPT !.id = 0, !.kids = [i \in 1..Len(n.kids) |-> Shape(n.kids[i])]]

\* C31: Patch convergence.  After patchElement(old, new), old's attribute
\* map is new's and old's child list is structurally new's: same length
\* and, position by position, same kind, tag, text, attributes, children.
C31_PatchConverges ==
  patchOut.done =>
    /\ patchOut.node.attrs = newEl.attrs
    /\ Shape(patchOut.node).kids = Shape(newEl).kids

\* C31 witness: a patch that had to remove, replace and go into a child.
C31_Witness ==
  /\ patchOut.done
  /\ Len(oldEl.kids) = 2 /\ Len(newEl.kids) = 1
  /\ oldEl.kids[1].kind = "element" /\ newEl.kids[1].kind = "element"
  /\ oldEl.kids[1].tag = newEl.kids[1].tag
  /\ Shape(oldEl.kids[1]) # newEl.kids[1]
  /\ Shape(patchOut.node).kids = Shape(newEl).kids

\* Positions where the old and the new root both have a child, of the same
\* node kind and, for elements, the same tag.
Aligned ==
  {i \in 1..Len(oldEl.kids) :
     /\ i <= Len(newEl.kids)
     /\ oldEl.kids[i].kind = newEl.kids[i].kind
     /\ oldEl.kids[i].tag = newEl.kids[i].tag}

\* C32: Patch minimality.  patchElement writes no attribute whose value is
\* already equal and no text that is already equal, a child whose kind and
\* tag match the new child at its position stays the node it was, and a
\* patch against an equal tree makes no DOM write at all.
C32_PatchMinimal ==
  patchOut.done =>
    /\ \A a \in DOMAIN oldEl.attrs \cap DOMAIN newEl.attrs :
         oldEl.attrs[a] = newEl.attrs[a] =>
           \A w \in patchOut.writes : ~(w.node = oldEl.id /\ w.at = a)
    /\ \A i \in Aligned :
         /\ patchOut.node.kids[i].id = oldEl.kids[i].id
         /\ (oldEl.kids[i].kind = "text"
               /\ oldEl.kids[i].text = newEl.kids[i].text) =>
              \A w \in patchOut.writes : w.node # oldEl.kids[i].id
    /\ Shape(oldEl) = newEl => patchOut.writes = {}

\* The element of the component as its last render output describes it,
\* every handler of the output assigned and wrapped with the update path.
WiredAs == DomOf(vnode, TRUE)

\* C33: Handler wiring.  After a completed route render every element of a
\* visible component whose vnode carries an on* handler has that handler
\* assigned, wrapped so that it runs the component's update path after the
\* handler, and an element whose vnode carries none has none assigned.
C33_HandlersWired ==
  (lastOp.op = "renderRoute" /\ oldEl # NoNode) => oldEl = WiredAs
\* The registry instance of fingerprint h is replaced by the step.
Replaced(h) == regInst[h] # 0 /\ regInst'[h] # regInst[h]

\* C34: No hydrated instance is dropped without destroy.  Whenever a client
\* operation replaces the registry instance of a fingerprint, destroy has
\* been invoked on the replaced instance if hydrate had been invoked on it.
C34_NoDropWithoutDestroy ==
  [][\A h \in CompHashes :
       (env = "client" /\ Replaced(h) /\ Hooked(log, "hydrate", regInst[h]))
         => Hooked(log', "destroy", regInst[h])]_vars
\* The bindings the routes of the nodes ns that match path p produce,
\* added to ps.
RECURSIVE Bindings(_, _, _)
Bindings(ps, ns, p) ==
  IF ns = <<>> THEN ps
  ELSE Bindings(IF RouteShown(Head(ns), p)
                  THEN RouteParams(ps, RouteOf(Head(ns)), p) ELSE ps,
                Tail(ns), p)

\* C35: No stale route parameters.  After a route transition on the client
\* and after a page request on the server, params holds the bindings of
\* the routes that match the current path and no binding written for an
\* earlier path or request.
C35_NoStaleParams ==
  (lastOp.op \in {"start", "navigate", "clickNav", "request"} /\ ~err) =>
    params = Bindings(NoParams, DocOrder, path)
\* C36: One render per popstate.  At most one popstate listener is
\* registered at any time, and one popstate event performs exactly one
\* route render.
C36_OneRenderPerPopstate ==
  /\ started => listeners <= 1
  /\ (lastOp.op = "popstate" /\ ~err) =>
       Cardinality({k \in OpSeg : log[k].ev = "renderRoute"}) = 1
\* C37: Element association tracks visibility.  Between operations of the
\* client the element-association map has an entry only for fingerprints
\* in the visible set, and each associated element is attached under the
\* mount point.
C37_AssociationTracksVisible ==
  (env = "client" /\ started /\ ~err) =>
    \A h \in Hashes :
      compEl[h] # 0 => h \in visible /\ Attached(Cur, h, compEl[h])
\* The step is a route transition after start in which a render raised.
RouteRenderFailed ==
  ~err /\ err' /\ lastOp'.op \in {"navigate", "clickNav"}

\* C38: Failed route render leaves lifecycle state unchanged.  When a render
\* raises during renderRoute, the visible set and the registry instances
\* are as they were before the transition and no destroy hook has been
\* invoked.
C38_FailedRouteKeepsLifecycle ==
  [][RouteRenderFailed =>
       /\ visible' = visible
       /\ regInst' = regInst
       /\ \A k \in (Len(log) + 1)..Len(log') : log'[k].ev # "destroy"]_vars
\* C39: reinitiate returns what it stores.  For every registry entry the
\* instance a call of reinitiate returns is the instance the entry holds
\* after the call, the one findComponentByHash answers with.
C39_ReinitiateReturnsStored ==
  lastOp.op = "reinitiate" =>
    lastOp.inst = findComponentByHash(Cur, lastOp.hash)
====
